---- MODULE Spec2Model ----
(***************************************************************************)
(* Projection & valuation pipeline of the fantasy-baseball sleeper finder. *)
(*                                                                         *)
(* Every component of the pipeline is a function of its inputs, so each    *)
(* component has a specification of its own: Init draws the inputs from    *)
(* small sets and one action per entry point applies the code.  The        *)
(* variables of the components a specification does not exercise stay at   *)
(* Idle.                                                                   *)
(*                                                                         *)
(* Numbers.  The code computes in IEEE doubles; the model computes in      *)
(* fixed point.  Scores are held in thousandths of a point ("milli"),      *)
(* weights in hundredths, values rounded by round(x, 1) in tenths.  A      *)
(* Python value that may be absent or not a number is a record             *)
(* [k |-> kind, v |-> integer] with kind "num", "nan", "inf", "ninf",      *)
(* "none" (Python None) or "missing" (no such column / key).               *)
(***************************************************************************)
EXTENDS Integers, Sequences, FiniteSets, TLC

VARIABLES value,      \* composite scorer: calculate_ai_value_scores
          auction,    \* auction engine: calculate_sgp_values
          traj,       \* project_career_trajectory
          pred,       \* Predictor.load_models / predict_all
          batch,      \* the batch stages of run_inference.main
          save,       \* _save_projections
          skills,     \* consistency and improvement scoring
          surplus,    \* calculate_surplus_value
          dynpool,    \* calculate_dynasty_value over a pool
          mproj,      \* project_batter / project_pitcher
          yoy,        \* engineer_batting_features: year-over-year delta
          training,   \* train_sleeper_model / train_bust_model / train_regression_model
          monitor     \* CostMonitor and the report generations using it

vars == <<value, auction, traj, pred, batch, save, skills, surplus, dynpool, mproj, yoy, training, monitor>>

Idle == [pc |-> "idle"]

---------------------------------------------------------------------------
(* Python values *)

Num(n) == [k |-> "num", v |-> n]
NaN == [k |-> "nan", v |-> 0]
PosInf == [k |-> "inf", v |-> 0]
NegInf == [k |-> "ninf", v |-> 0]
None == [k |-> "none", v |-> 0]
Missing == [k |-> "missing", v |-> 0]

IsNum(x) == x.k = "num"

\* a < b as Python evaluates it on floats: False as soon as one side is NaN
PyLt(a, b) == IsNum(a) /\ IsNum(b) /\ a.v < b.v

\* the builtin min(a, b): a, unless b < a
PyMin(a, b) == IF PyLt(b, a) THEN b ELSE a

\* the builtin max(a, b): a, unless b > a
PyMax(a, b) == IF PyLt(a, b) THEN b ELSE a

PyAdd(a, b) == IF IsNum(a) /\ IsNum(b) THEN Num(a.v + b.v) ELSE NaN

\* a * n / d for integers n, d > 0 (the fixed-point product with a constant)
PyScale(a, n, d) == IF IsNum(a) THEN Num((a.v * n) \div d) ELSE NaN

\* `row.get(col, default) or alt`: None, a missing column and 0 are falsy and
\* give alt; NaN is truthy and passes through
GetOr(x, alt) ==
    IF x.k \in {"missing", "none"} \/ (IsNum(x) /\ x.v = 0) THEN Num(alt) ELSE x

\* n / m rounded to the nearest integer, ties to even (round(), Series.round)
RoundHalfEven(n, m) ==
    LET q == n \div m
        r == n % m
    IN  IF 2 * r < m THEN q
        ELSE IF 2 * r > m THEN q + 1
        ELSE q + (q % 2)

\* round(x, 1) of a milli value, in tenths; round(nan, 1) is nan
Round1(x) == IF IsNum(x) THEN Num(RoundHalfEven(x.v, 100)) ELSE x

Milli(x) == IF IsNum(x) THEN Num(x.v * 1000) ELSE x

RECURSIVE SumOver(_, _)
SumOver(S, f) ==
    IF S = {} THEN 0
    ELSE LET e == CHOOSE e \in S : TRUE IN f[e] + SumOver(S \ {e}, f)

---------------------------------------------------------------------------
(* Composite value scorer: backend/ml/models/value_model.py *)

ComponentNames ==
    {"projected_value", "sleeper_upside", "bust_safety", "consistency",
     "age_curve", "dynasty_premium", "improvement", "opportunity",
     "trajectory_outlook"}

\* in hundredths
DEFAULT_WEIGHTS ==
    [projected_value |-> 22, sleeper_upside |-> 10, bust_safety |-> 8,
     consistency |-> 12, age_curve |-> 8, dynasty_premium |-> 13,
     improvement |-> 10, opportunity |-> 5, trajectory_outlook |-> 12]

BATTER_PEAK_AGE == 27
PITCHER_PEAK_AGE == 26
DEFAULT_COMPOSITE_AGE == 30

PeakAge(ptype) == IF ptype = "batter" THEN BATTER_PEAK_AGE ELSE PITCHER_PEAK_AGE

\* {**DEFAULT_WEIGHTS, **(weights or {})}
MergedWeights(weights) ==
    [k \in DOMAIN DEFAULT_WEIGHTS \cup DOMAIN weights |->
        IF k \in DOMAIN weights THEN weights[k] ELSE DEFAULT_WEIGHTS[k]]

TotalWeight(w) == SumOver(DOMAIN w, w)

_age_curve_score(age, peak_age) ==
    IF age < peak_age - 2 THEN 90
    ELSE IF age < peak_age THEN 85
    ELSE IF age <= peak_age + 2 THEN 75
    ELSE IF age <= 32 THEN 55
    ELSE IF age <= 35 THEN 35
    ELSE 15

Min2(a, b) == IF a < b THEN a ELSE b
Max2(a, b) == IF a > b THEN a ELSE b
Abs(a) == IF a < 0 THEN -a ELSE a

\* improvement and dynasty in points; the result in milli
_trajectory_outlook_score(age, peak_age, improvement, dynasty) ==
    LET base0 == PyScale(Milli(dynasty), 1, 2)
        age_trust == Max2(30, 100 - 12 * Max2(0, age - peak_age))  \* hundredths
        base1 == IF PyLt(Num(0), improvement)
                 THEN PyAdd(base0, Num(3 * improvement.v * age_trust))
                 ELSE PyAdd(base0, PyScale(Milli(improvement), 1, 5))
        years_to_peak == peak_age - age
        base2 == IF years_to_peak > 0
                 THEN PyAdd(base1, Num(1000 * Min2(20, years_to_peak * 5)))
                 ELSE IF years_to_peak < -5
                 THEN PyAdd(base1, Num(-1000 * Min2(15, Abs(years_to_peak + 5) * 3)))
                 ELSE base1
    IN  PyMax(Num(0), PyMin(Num(100000), base2))

\* the nine components of one row, in milli
Components(row, age, ptype) ==
    LET peak_age == PeakAge(ptype)
        auction_val == GetOr(row.auction_value, 0)
        sleeper == GetOr(row.sleeper_score, 0)
        bust == GetOr(row.bust_score, 0)
        consistency == GetOr(row.consistency_score, 50)
        dynasty == GetOr(row.dynasty_value, 0)
        improvement == GetOr(row.improvement_score, 0)
    IN  [projected_value |->
             PyMin(Num(100000), PyMax(Num(0), PyScale(Milli(auction_val), 5, 2))),
         sleeper_upside |-> Milli(sleeper),
         bust_safety |-> PyAdd(Num(100000), PyScale(Milli(bust), -1, 1)),
         consistency |-> Milli(consistency),
         age_curve |-> Num(1000 * _age_curve_score(age, peak_age)),
         dynasty_premium |-> Milli(dynasty),
         improvement |->
             PyMin(Num(100000),
                   PyMax(Num(0), PyScale(PyAdd(Milli(improvement), Num(100000)), 1, 2))),
         opportunity |->
             PyMin(Num(100000), PyMax(Num(0), PyScale(Milli(auction_val), 3, 1))),
         trajectory_outlook |->
             _trajectory_outlook_score(age, peak_age, improvement, dynasty)]

\* the keys the weighted sum runs over: `for k in w if k in components`
AppliedKeys(w) == DOMAIN w \cap ComponentNames

\* sum(w[k] * components[k] ...) with w[k] = merged[k] / total_w: the rational
\* n / d in milli with d > 0, or NaN when a summed component is NaN
WeightedSum(w, c) ==
    LET total_w == TotalWeight(w)
        keys == AppliedKeys(w)
        n == SumOver(keys, [k \in keys |-> w[k] * c[k].v])
    IN  IF \E k \in keys : ~IsNum(c[k]) THEN [k |-> "nan", n |-> 0, d |-> 1]
        ELSE IF total_w > 0 THEN [k |-> "num", n |-> n, d |-> total_w]
        ELSE [k |-> "num", n |-> -n, d |-> -total_w]

\* the weighted sum used as it is, the clamp forgotten
ClampScoreForgotten(x) == x

\* max(0, min(100, ai_value)) on the rational: min keeps 100 unless
\* ai_value < 100, max keeps 0 unless the result > 0
ClampScore(x) ==
    LET lo == IF x.k = "num" /\ x.n < 100000 * x.d
              THEN x ELSE [k |-> "num", n |-> 100000, d |-> 1]
    IN  IF lo.n > 0 THEN lo ELSE [k |-> "num", n |-> 0, d |-> 1]

\* round(max(0, min(100, ai_value)), 1), in tenths
AiValueScore(w, c) ==
    LET x == ClampScore(WeightedSum(w, c)) IN RoundHalfEven(x.n, 100 * x.d)

\* player_ages.get(pid, 30)
CompositeAge(age) == IF age.k = "missing" THEN DEFAULT_COMPOSITE_AGE ELSE age.v

\* one row of calculate_ai_value_scores
ScoreRow(row, age, ptype, weights) ==
    LET w == MergedWeights(weights)
        c == Components(row, CompositeAge(age), ptype)
    IN  [ai_value_score |-> AiValueScore(w, c),
         value_components |-> [k \in ComponentNames |-> Round1(c[k])],
         applied |-> [k \in AppliedKeys(w) |-> w[k]],
         total_w |-> TotalWeight(w),
         age_used |-> CompositeAge(age)]

EmptyWeights == [k \in {} |-> 0]

\* weight override maps, in hundredths: none, a known key raised, a key that is
\* no component, a negative weight, and one that makes the total 0
WeightOverrides ==
    {EmptyWeights,
     [projected_value |-> 50],
     [upside |-> 20],
     [bust_safety |-> -50],
     [projected_value |-> -78]}

SleeperInputs == {Missing, NaN, Num(100)}
BustInputs == {None, Num(0), Num(100)}
ConsistencyInputs == {Missing, None, NaN, Num(0), Num(50), Num(100)}
ImprovementInputs == {Missing, NaN, Num(-100), Num(0), Num(100)}
AuctionInputs == {Missing, Num(1), Num(50)}
DynastyInputs == {Missing, Num(50), Num(100)}
CompositeAges == {Missing, Num(22), Num(27), Num(38)}
PlayerTypes == {"batter", "pitcher"}

ScoreRows ==
    [sleeper_score : SleeperInputs, bust_score : BustInputs,
     consistency_score : ConsistencyInputs, improvement_score : ImprovementInputs,
     auction_value : AuctionInputs, dynasty_value : DynastyInputs]

ValueInit ==
    \E row \in ScoreRows, age \in CompositeAges, ptype \in PlayerTypes,
       weights \in WeightOverrides :
        value = [pc |-> "start", row |-> row, age |-> age, ptype |-> ptype,
                 weights |-> weights, out |-> None]
    /\ auction = Idle /\ traj = Idle /\ pred = Idle /\ batch = Idle /\ save = Idle /\ skills = Idle /\ surplus = Idle /\ dynpool = Idle /\ mproj = Idle /\ yoy = Idle /\ training = Idle /\ monitor = Idle

\* calculate_ai_value_scores on a one-row frame; total_w = 0 is a
\* ZeroDivisionError at the normalisation
calculate_ai_value_scores ==
    /\ value.pc = "start"
    /\ value' =
         IF TotalWeight(MergedWeights(value.weights)) = 0
         THEN [value EXCEPT !.pc = "raised"]
         ELSE [value EXCEPT !.pc = "done",
                            !.out = ScoreRow(value.row, value.age, value.ptype,
                                             value.weights)]
    /\ UNCHANGED <<auction, traj, pred, batch, save, skills, surplus, dynpool, mproj, yoy, training, monitor>>

SpecValue ==
    /\ ValueInit
    /\ [][calculate_ai_value_scores]_vars

ValueDone == value.pc = "done"

\* C2: every ai_value_score returned by calculate_ai_value_scores lies in
\* [0, 100] (0..1000 tenths), whatever the inputs, ages and weight overrides.
C2_AiValueScoreInRange ==
    ValueDone => value.out.ai_value_score \in 0..1000

AllMaxRow ==
    [sleeper_score |-> Num(100), bust_score |-> Num(0),
     consistency_score |-> Num(100), improvement_score |-> Num(100),
     auction_value |-> Num(50), dynasty_value |-> Num(100)]

\* the all-maximum row of a 22-year-old batter under the default weights has
\* been scored: 99.2
C2_Witness ==
    /\ ValueDone
    /\ value.row = AllMaxRow /\ value.age = Num(22) /\ value.ptype = "batter"
    /\ value.weights = EmptyWeights
    /\ value.out.ai_value_score = 992

Absent(x) == x.k \in {"missing", "none", "nan"}

\* C3: a row whose consistency_score is absent (no column, None, or the NaN of
\* a left merge) gets the ai_value_score of the same row with
\* consistency_score = 50.
C3_AbsentConsistencyIsMidpoint ==
    (ValueDone /\ Absent(value.row.consistency_score)) =>
        value.out.ai_value_score =
            ScoreRow([value.row EXCEPT !.consistency_score = Num(50)],
                     value.age, value.ptype, value.weights).ai_value_score

\* C29: a measured consistency_score of 0 gives a consistency component of 0,
\* an absent one gives 50, so with all other inputs equal the score of the
\* player measured at 0 is strictly lower.
C29_ZeroConsistencyIsNotAbsent ==
    (ValueDone /\ value.row.consistency_score = Num(0)) =>
        /\ value.out.value_components.consistency = Num(0)
        /\ value.out.ai_value_score <
               ScoreRow([value.row EXCEPT !.consistency_score = Missing],
                        value.age, value.ptype, value.weights).ai_value_score

\* `row.get("consistency_score") or 50`: 0 is falsy, the row is scored as the
\* row without a consistency_score
ZeroConsistencyScoredAsAbsent ==
    (ValueDone /\ value.row.consistency_score = Num(0)) =>
        value.out =
            ScoreRow([value.row EXCEPT !.consistency_score = Missing],
                     value.age, value.ptype, value.weights)

\* a row measured at 0 has been scored with the component at 50.0
ZeroConsistencyComponentFifty ==
    /\ ValueDone
    /\ value.row.consistency_score = Num(0)
    /\ value.weights = EmptyWeights
    /\ value.out.value_components.consistency = Num(500)

\* C8: the weights applied to the components in the weighted sum add up to 1,
\* that is, the merged weights of the applied keys add up to total_w.
C8_AppliedWeightsSumToOne ==
    ValueDone =>
        SumOver(DOMAIN value.out.applied, value.out.applied) = value.out.total_w

\* C9: each of the nine value_components is a number in [0, 100] (tenths).
C9_ComponentsInRange ==
    ValueDone =>
        \A k \in ComponentNames :
            /\ IsNum(value.out.value_components[k])
            /\ value.out.value_components[k].v \in 0..1000

---------------------------------------------------------------------------
(* Auction valuation engine: backend/app/services/auction_service.py *)

\* DEFAULT_SGP with every denominator doubled so that hr = 8.5 is an integer.
\* Units: counting stats in units, avg/obp/slg/ops/whip in thousandths, era in
\* hundredths.
DEFAULT_SGP ==
    [hr |-> 17, rbi |-> 50, r |-> 50, sb |-> 16, avg |-> 8, obp |-> 10,
     slg |-> 14, ops |-> 20, w |-> 6, sv |-> 14, so |-> 60, era |-> -36,
     whip |-> -30]

\* a custom denominator map: hr has denominator 0, the others are the defaults
ZERO_HR_SGP == [DEFAULT_SGP EXCEPT !.hr = 0]

\* sgp_total is held as a multiple of 1 / SgpScale: a common multiple of the
\* doubled denominators (428400), times 4 for the quartile interpolation and
\* divided by the 2 of the doubling
SgpUnit == 17 * 25 * 16 * 9 * 7
SgpScale == 2 * SgpUnit

\* budget shares in twentieths: HITTER_BUDGET_PCT = 0.65, PITCHER_BUDGET_PCT = 0.35
HITTER_BUDGET_PCT == 13
PITCHER_BUDGET_PCT == 7

DEFAULT_BUDGET == 260
DEFAULT_NUM_TEAMS == 12
DEFAULT_HITTER_ROSTER == 14
DEFAULT_PITCHER_ROSTER == 10

RECURSIVE GCD(_, _)
GCD(a, b) == IF b = 0 THEN a ELSE GCD(b, a % b)

RowOrders(n) ==
    {p \in [1..n -> 1..n] : \A i, j \in 1..n : i # j => p[i] # p[j]}

\* the values of column cat in ascending order: position k holds the value
\* with fewer than k values below it and at least k values not above it
AscendingColumn(pool, cat) ==
    LET n == Len(pool)
        below(v) == Cardinality({i \in 1..n : pool[i][cat] < v})
        upto(v) == Cardinality({i \in 1..n : pool[i][cat] <= v})
    IN  [k \in 1..n |->
            CHOOSE v \in {pool[i][cat] : i \in 1..n} : below(v) < k /\ k <= upto(v)]

\* 4 * Series.quantile(k / 4), linear interpolation between order statistics
Quantile4(pool, cat, k) ==
    LET xs == AscendingColumn(pool, cat)
        pos4 == k * (Len(pool) - 1)
        lo == pos4 \div 4
        frac4 == pos4 % 4
    IN  IF frac4 = 0 THEN 4 * xs[lo + 1]
        ELSE 4 * xs[lo + 1] + frac4 * (xs[lo + 2] - xs[lo + 1])

\* every category treated as higher-is-better
CategorySgpHigherIsBetter(pool, cat, denom, i) ==
    (4 * pool[i][cat] - Quantile4(pool, cat, 1)) * (SgpUnit \div Abs(denom))

\* df[f"sgp_{cat}"] of row i, times SgpScale
CategorySgp(pool, cat, denom, i) ==
    IF denom < 0
    THEN (Quantile4(pool, cat, 3) - 4 * pool[i][cat]) * (SgpUnit \div (-denom))
    ELSE (4 * pool[i][cat] - Quantile4(pool, cat, 1)) * (SgpUnit \div denom)

\* the categories that are not skipped
UsedCategories(pool, categories, sgp_denominators) ==
    {c \in categories :
        /\ c \in DOMAIN pool[1] /\ c \in DOMAIN sgp_denominators
        /\ sgp_denominators[c] # 0}

\* sgp_total of every row, times SgpScale
_calculate_category_sgp(pool, categories, sgp_denominators) ==
    LET used == UsedCategories(pool, categories, sgp_denominators)
    IN  [i \in 1..Len(pool) |->
            SumOver(used, [c \in used |->
                CategorySgp(pool, c, sgp_denominators[c], i)])]

RECURSIVE SumSeq(_)
SumSeq(s) == IF s = <<>> THEN 0 ELSE Head(s) + SumSeq(Tail(s))

RECURSIVE GcdSeq(_)
GcdSeq(s) == IF s = <<>> THEN 0 ELSE GCD(Head(s), GcdSeq(Tail(s)))

Dollars(var, total_var, distributable20) ==
    RoundHalfEven(var * distributable20, 2 * total_var) + 10

\* _scale_to_dollars over the rows in the order `order` (the result of
\* sort_values on sgp_total, descending): auction_value of every row, in tenths
_scale_to_dollars(sgp_total, order, total_dollars20, total_roster_slots) ==
    LET n == Len(sgp_total)
        replacement_sgp ==
            IF n > total_roster_slots
            THEN sgp_total[order[total_roster_slots + 1]] ELSE 0
        var == [i \in 1..n |-> Max2(0, sgp_total[i] - replacement_sgp)]
        g == GcdSeq(var)
        total_var == SumSeq(var)
        distributable20 == total_dollars20 - 20 * total_roster_slots
    IN  [i \in 1..n |->
            IF total_var > 0 /\ var[i] > 0
            THEN Dollars(var[i] \div g, total_var \div g, distributable20)
            ELSE 10]

BatterPoolSize == 3
PitcherPoolSize == 2
SurplusPoolSize == 2

\* the row orders of every pool length in use
PoolOrders ==
    [n \in 1..Max2(Max2(BatterPoolSize, PitcherPoolSize), SurplusPoolSize) |->
        RowOrders(n)]

\* sort_values("sgp_total", ascending=False): any descending order of the rows
\* (the sort is not stable)
DescendingOrders(sgp_total) ==
    {p \in PoolOrders[Len(sgp_total)] :
        \A i \in 1..(Len(sgp_total) - 1) :
            sgp_total[p[i]] >= sgp_total[p[i + 1]]}

DEFAULT_BATTING_CATEGORIES == {"hr", "rbi", "r", "sb", "avg"}
DEFAULT_PITCHING_CATEGORIES == {"w", "sv", "so", "era", "whip"}

\* projection rows: the frames carry the hr and avg (so and era) columns
BatterRows == [hr : {15, 40}, avg : {250, 290}]
PitcherRows == [so : {120, 200}, era : {320, 450}]

\* roster sizes: one slot of each kind, or the standard 14 + 10
RosterConfigs ==
    {[hitter_roster_spots |-> 1, pitcher_roster_spots |-> 1],
     [hitter_roster_spots |-> DEFAULT_HITTER_ROSTER,
      pitcher_roster_spots |-> DEFAULT_PITCHER_ROSTER]}

LeagueConfigs ==
    {[auction_budget |-> b, num_teams |-> t,
      hitter_roster_spots |-> r.hitter_roster_spots,
      pitcher_roster_spots |-> r.pitcher_roster_spots,
      sgp_denominators |-> d] :
        b \in {20, DEFAULT_BUDGET}, t \in {1, DEFAULT_NUM_TEAMS},
        r \in RosterConfigs, d \in {DEFAULT_SGP, ZERO_HR_SGP}}

\* a pool of two batters with all five default categories projected
FiveCategoryPool ==
    <<[hr |-> 40, rbi |-> 110, r |-> 100, sb |-> 20, avg |-> 290],
      [hr |-> 15, rbi |-> 60, r |-> 65, sb |-> 5, avg |-> 250]>>

BatterPools == [1..BatterPoolSize -> BatterRows] \cup {FiveCategoryPool}

AuctionInit ==
    \E bp \in [1..BatterPoolSize -> BatterRows],
       pp \in [1..PitcherPoolSize -> PitcherRows],
       cfg \in LeagueConfigs :
        auction = [pc |-> "start", batter_projections |-> bp,
                   pitcher_projections |-> pp, cfg |-> cfg, out |-> None]
    /\ value = Idle /\ traj = Idle /\ pred = Idle /\ batch = Idle /\ save = Idle /\ skills = Idle /\ surplus = Idle /\ dynpool = Idle /\ mproj = Idle /\ yoy = Idle /\ training = Idle /\ monitor = Idle

\* calculate_sgp_values with the default category lists
calculate_sgp_values ==
    /\ auction.pc = "start"
    /\ LET cfg == auction.cfg
           total_hitter_dollars20 ==
               cfg.auction_budget * cfg.num_teams * HITTER_BUDGET_PCT
           total_pitcher_dollars20 ==
               cfg.auction_budget * cfg.num_teams * PITCHER_BUDGET_PCT
           total_hitter_slots == cfg.hitter_roster_spots * cfg.num_teams
           total_pitcher_slots == cfg.pitcher_roster_spots * cfg.num_teams
       IN  \E bat_sgp \in {_calculate_category_sgp(auction.batter_projections,
                          DEFAULT_BATTING_CATEGORIES, cfg.sgp_denominators)},
              pit_sgp \in {_calculate_category_sgp(auction.pitcher_projections,
                          DEFAULT_PITCHING_CATEGORIES, cfg.sgp_denominators)} :
           \E bo \in DescendingOrders(bat_sgp), po \in DescendingOrders(pit_sgp) :
             auction' =
               [auction EXCEPT
                  !.pc = "done",
                  !.out =
                     [batter_sgp |-> bat_sgp, batter_order |-> bo,
                      batter_values |->
                          _scale_to_dollars(bat_sgp, bo, total_hitter_dollars20,
                                            total_hitter_slots),
                      pitcher_sgp |-> pit_sgp, pitcher_order |-> po,
                      pitcher_values |->
                          _scale_to_dollars(pit_sgp, po, total_pitcher_dollars20,
                                            total_pitcher_slots)]]
    /\ UNCHANGED <<value, traj, pred, batch, save, skills, surplus, dynpool, mproj, yoy, training, monitor>>

SpecAuction ==
    /\ AuctionInit
    /\ [][calculate_sgp_values]_vars

AuctionDone == auction.pc = "done"

\* C1: every player returned by calculate_sgp_values has auction_value >= 1.0
\* (10 tenths), for every pool and league configuration.
C1_AuctionValueAtLeastOne ==
    AuctionDone =>
        /\ \A i \in DOMAIN auction.out.batter_values :
              auction.out.batter_values[i] >= 10
        /\ \A i \in DOMAIN auction.out.pitcher_values :
              auction.out.pitcher_values[i] >= 10

\* the same under a budget that covers the $1 reserve of every roster slot
AuctionFloorWhenFunded ==
    (AuctionDone
      /\ auction.cfg.auction_budget * HITTER_BUDGET_PCT
            >= 20 * auction.cfg.hitter_roster_spots
      /\ auction.cfg.auction_budget * PITCHER_BUDGET_PCT
            >= 20 * auction.cfg.pitcher_roster_spots) =>
        /\ \A i \in DOMAIN auction.out.batter_values :
              auction.out.batter_values[i] >= 10
        /\ \A i \in DOMAIN auction.out.pitcher_values :
              auction.out.pitcher_values[i] >= 10


DefaultLeague ==
    [auction_budget |-> DEFAULT_BUDGET, num_teams |-> DEFAULT_NUM_TEAMS,
     hitter_roster_spots |-> DEFAULT_HITTER_ROSTER,
     pitcher_roster_spots |-> DEFAULT_PITCHER_ROSTER,
     sgp_denominators |-> DEFAULT_SGP]

\* calculate_sgp_values called with the projections only
DefaultLeagueInit ==
    \E bp \in BatterPools, pp \in [1..PitcherPoolSize -> PitcherRows] :
        auction = [pc |-> "start", batter_projections |-> bp,
                   pitcher_projections |-> pp, cfg |-> DefaultLeague, out |-> None]
    /\ value = Idle /\ traj = Idle /\ pred = Idle /\ batch = Idle /\ save = Idle /\ skills = Idle /\ surplus = Idle /\ dynpool = Idle /\ mproj = Idle /\ yoy = Idle /\ training = Idle /\ monitor = Idle

SpecDefaultLeague ==
    /\ DefaultLeagueInit
    /\ [][calculate_sgp_values]_vars

\* row a is at least as good as row b in every category the rows carry:
\* lower for era and whip, higher for the others
AtLeastAsGood(a, b, categories) ==
    \A c \in categories \cap DOMAIN a :
        IF c \in {"era", "whip"} THEN a[c] <= b[c] ELSE a[c] >= b[c]

\* C18: under the default league, a player at least as good as another in
\* every category has an auction_value at least as high, and the batter
\* {40, 110, 100, 20, .290} is valued strictly above {15, 60, 65, 5, .250}.
C18_BetterPlayerHigherValue ==
    (AuctionDone /\ auction.cfg = DefaultLeague) =>
        /\ \A i, j \in DOMAIN auction.batter_projections :
              AtLeastAsGood(auction.batter_projections[i],
                            auction.batter_projections[j],
                            DEFAULT_BATTING_CATEGORIES)
                => auction.out.batter_values[i] >= auction.out.batter_values[j]
        /\ \A i, j \in DOMAIN auction.pitcher_projections :
              AtLeastAsGood(auction.pitcher_projections[i],
                            auction.pitcher_projections[j],
                            DEFAULT_PITCHING_CATEGORIES)
                => auction.out.pitcher_values[i] >= auction.out.pitcher_values[j]
        /\ auction.batter_projections = FiveCategoryPool
                => auction.out.batter_values[1] > auction.out.batter_values[2]

\* the two-batter pool has been valued under the default league next to two
\* pitchers of equal strikeouts, the one with the lower ERA valued higher
C18_Witness ==
    /\ AuctionDone /\ auction.cfg = DefaultLeague
    /\ auction.batter_projections = FiveCategoryPool
    /\ auction.out.batter_values[1] > auction.out.batter_values[2]
    /\ auction.pitcher_projections[1].so = auction.pitcher_projections[2].so
    /\ auction.pitcher_projections[1].era < auction.pitcher_projections[2].era
    /\ auction.out.pitcher_values[1] > auction.out.pitcher_values[2]

---------------------------------------------------------------------------
(* Surplus value: calculate_surplus_value *)

\* auction_value of the rows in tenths of a dollar; player_id is the row number
AuctionValues == {100, 200, 300}

\* the costs of a supplied map, in tenths of a dollar
CostEntries == {Num(150), Num(250), NaN}

\* expected_costs: not supplied (None), or a dict over some of the players
ExpectedCostsArgs ==
    {[supplied |-> FALSE, map |-> <<>>]} \cup
    {[supplied |-> TRUE, map |-> m] :
        m \in UNION {[S -> CostEntries] : S \in SUBSET (1..SurplusPoolSize)}}

\* `if expected_costs:` an absent and an empty dict are both false
Truthy(expected_costs) ==
    expected_costs.supplied /\ DOMAIN expected_costs.map # {}

\* expected_cost and surplus_value are held in tenths of a dollar times
\* CostScale(n), the denominator of the rank multiplier
CostScale(total) == 10 * Max2(total, 1)

\* _cost_multiplier of the row at 0-based position rank, times CostScale(total)
_cost_multiplier(rank, total) == 12 * Max2(total, 1) - 4 * rank

\* df["player_id"].map(expected_costs).fillna(1.0), in tenths
MappedCost(expected_costs, pid) ==
    IF pid \in DOMAIN expected_costs.map /\ IsNum(expected_costs.map[pid])
    THEN expected_costs.map[pid].v ELSE 10

\* the 0-based position of row i in the order
RankOf(order, i) == (CHOOSE k \in DOMAIN order : order[k] = i) - 1

SurplusInit ==
    \E pv \in [1..SurplusPoolSize -> AuctionValues], ec \in ExpectedCostsArgs :
        surplus = [pc |-> "start", player_values |-> pv, expected_costs |-> ec,
                   out |-> None]
    /\ value = Idle /\ auction = Idle /\ traj = Idle /\ pred = Idle /\ batch = Idle /\ save = Idle /\ skills = Idle /\ dynpool = Idle /\ mproj = Idle /\ yoy = Idle /\ training = Idle /\ monitor = Idle

calculate_surplus_value ==
    /\ surplus.pc = "start"
    /\ LET pv == surplus.player_values
           ec == surplus.expected_costs
           n == Len(pv)
           orders == IF Truthy(ec) THEN {[i \in 1..n |-> i]}
                     ELSE DescendingOrders(pv)
       IN  \E order \in orders :
             LET cost == [i \in 1..n |->
                            IF Truthy(ec)
                            THEN MappedCost(ec, i) * CostScale(n)
                            ELSE pv[i] * _cost_multiplier(RankOf(order, i), n)]
             IN  surplus' =
                   [surplus EXCEPT
                      !.pc = "done",
                      !.out = [order |-> order, heuristic |-> ~Truthy(ec),
                               expected_cost |-> cost,
                               surplus_value |->
                                   [i \in 1..n |-> pv[i] * CostScale(n) - cost[i]]]]
    /\ UNCHANGED <<value, auction, traj, pred, batch, save, skills, dynpool, mproj, yoy, training, monitor>>

SpecSurplus ==
    /\ SurplusInit
    /\ [][calculate_surplus_value]_vars

SurplusDone == surplus.pc = "done"

\* C19: surplus_value = auction_value - expected_cost for every player;
\* whenever a cost map is supplied the rank heuristic is not used and
\* expected_cost is the player's entry of the map.
C19_SurplusFromSuppliedCosts ==
    SurplusDone =>
        LET n == Len(surplus.player_values)
            ec == surplus.expected_costs
        IN  /\ \A i \in 1..n :
                  surplus.out.surplus_value[i] =
                      surplus.player_values[i] * CostScale(n)
                          - surplus.out.expected_cost[i]
            /\ ec.supplied =>
                  /\ ~surplus.out.heuristic
                  /\ \A i \in DOMAIN ec.map :
                        IsNum(ec.map[i]) =>
                            surplus.out.expected_cost[i] = ec.map[i].v * CostScale(n)

\* surplus_value is the difference in both modes
SurplusIsDifference ==
    SurplusDone =>
        \A i \in DOMAIN surplus.player_values :
            surplus.out.surplus_value[i] =
                surplus.player_values[i] * CostScale(Len(surplus.player_values))
                    - surplus.out.expected_cost[i]

\* a map with at least one entry is used: its numeric entries are the costs,
\* players without a numeric entry cost $1.0
NonEmptyMapIsUsed ==
    (SurplusDone /\ Truthy(surplus.expected_costs)) =>
        /\ ~surplus.out.heuristic
        /\ \A i \in DOMAIN surplus.player_values :
              surplus.out.expected_cost[i] =
                  MappedCost(surplus.expected_costs, i)
                      * CostScale(Len(surplus.player_values))

\* a supplied map without entries is treated as no map
EmptyMapUsesHeuristic ==
    /\ SurplusDone
    /\ surplus.expected_costs.supplied
    /\ DOMAIN surplus.expected_costs.map = {}
    /\ surplus.out.heuristic

\* 30.0 at cost 25.0 and 20.0 at cost 15.0: surplus 5.0 each
SurplusScenario ==
    /\ SurplusDone
    /\ surplus.player_values = <<300, 200>>
    /\ surplus.expected_costs = [supplied |-> TRUE, map |-> <<Num(250), Num(150)>>]
    /\ surplus.out.surplus_value = <<50 * CostScale(2), 50 * CostScale(2)>>

\* the rank-heuristic costs of the pool when the sort leaves the rows in order
HeuristicCosts(pv, order) ==
    [i \in DOMAIN pv |-> pv[i] * _cost_multiplier(RankOf(order, i), Len(pv))]

\* C24: the valuation outputs are order-independent: whatever order the rows
\* of the pool arrive in, hence whichever descending order the sort leaves
\* players of equal auction_value in, every player gets the same
\* expected_cost and surplus_value from the rank heuristic.
C24_OrderIndependent ==
    (SurplusDone /\ surplus.out.heuristic) =>
        \A order \in DescendingOrders(surplus.player_values) :
            /\ surplus.out.expected_cost =
                   HeuristicCosts(surplus.player_values, order)
            /\ surplus.out.surplus_value =
                   [i \in DOMAIN surplus.player_values |->
                       surplus.player_values[i]
                           * CostScale(Len(surplus.player_values))
                       - HeuristicCosts(surplus.player_values, order)[i]]

\* without ties on auction_value the heuristic does not depend on the row order
OrderIndependentWithoutTies ==
    (/\ SurplusDone
     /\ surplus.out.heuristic
     /\ \A i, j \in DOMAIN surplus.player_values :
            i # j => surplus.player_values[i] # surplus.player_values[j]) =>
        \A order \in DescendingOrders(surplus.player_values) :
            surplus.out.expected_cost =
                HeuristicCosts(surplus.player_values, order)

\* two players at 10.0: the one the sort leaves second is charged 10.0, the
\* other 12.0, and the second row may be either player
TiedPlayersCostDepends ==
    /\ SurplusDone
    /\ surplus.out.heuristic
    /\ surplus.player_values = <<100, 100>>
    /\ surplus.out.order = <<2, 1>>
    /\ surplus.out.expected_cost = <<100 * 20, 100 * 24>>

---------------------------------------------------------------------------
(* Career trajectory: backend/ml/models/trajectory_model.py *)

\* age -> multiplier on peak value, in hundredths
BATTER_AGING_CURVE ==
    [a \in 20..40 |->
        <<55, 65, 75, 83, 90, 95, 98, 100, 98, 95, 91, 87, 82, 76, 70, 63, 55,
          47, 39, 32, 25>>[a - 19]]

PITCHER_AGING_CURVE ==
    [a \in 20..40 |->
        <<60, 70, 78, 85, 91, 96, 100, 98, 95, 91, 86, 81, 75, 68, 61, 53, 45,
          37, 30, 23, 17>>[a - 19]]

\* in hundredths
BASE_CONFIDENCE_WIDTHS == <<8, 14, 20, 26, 32, 38, 44, 50>>

DEFAULT_CURRENT_SEASON == 2025

TrajectoryPeakAge(player_type) == IF player_type = "batter" THEN 27 ELSE 26

AgingCurve(player_type) ==
    IF player_type = "batter" THEN BATTER_AGING_CURVE ELSE PITCHER_AGING_CURVE

\* in thousandths.  Ages are integers and the curves have every age from 20
\* to 40, so the interpolation branch is never taken.
_get_age_factor(age, aging_curve) ==
    IF age \in DOMAIN aging_curve THEN 10 * aging_curve[age]
    ELSE IF age < 20 THEN 9 * aging_curve[20]
    ELSE Max2(50, 5 * aging_curve[40])

\* in ten-thousandths; improvement_score in points
_improvement_adjustment(improvement_score, current_age, peak_age) ==
    IF current_age > peak_age + 3
    THEN Max2(-1500, 10 * improvement_score)
    ELSE IF improvement_score > 0
    THEN LET age_trust == Max2(3, 10 - (current_age - 22))    \* tenths
         IN  Min2(2500, 2 * improvement_score * age_trust)
    ELSE Max2(-2000, 15 * improvement_score)

\* estimated_peak_value, in milli
EstimatedPeakValue(current_age, current_value, player_type, improvement_score) ==
    LET factor == _get_age_factor(current_age, AgingCurve(player_type))
        est0 == IF factor > 0
                THEN Min2(100000, (current_value * 1000 * 1000) \div factor)
                ELSE current_value * 1000
        adj == _improvement_adjustment(improvement_score, current_age,
                                       TrajectoryPeakAge(player_type))
    IN  Min2(100000, (est0 * (10000 + adj)) \div 10000)

\* the momentum term applied whatever the sign of improvement_score
ProjectedValueMomentumAlways(est_peak, current_age, player_type, improvement_score, year_offset) ==
    LET future_age == current_age + year_offset
        base == (est_peak * _get_age_factor(future_age, AgingCurve(player_type)))
                    \div 1000
        boosted ==
            IF future_age <= TrajectoryPeakAge(player_type) + 2
            THEN (base * (8000 + 3 * improvement_score * Max2(0, 4 - year_offset)))
                    \div 8000
            ELSE base
    IN  Max2(0, Min2(100000, boosted))

\* projected_value of year year_offset before rounding, in milli
ProjectedValue(est_peak, current_age, player_type, improvement_score, year_offset) ==
    LET future_age == current_age + year_offset
        base == (est_peak * _get_age_factor(future_age, AgingCurve(player_type)))
                    \div 1000
        boosted ==
            IF improvement_score > 0
                  /\ future_age <= TrajectoryPeakAge(player_type) + 2
            THEN (base * (8000 + 3 * improvement_score * Max2(0, 4 - year_offset)))
                    \div 8000
            ELSE base
    IN  Max2(0, Min2(100000, boosted))

\* the band multiplied by the consistency factor where the code divides by it
BandTimesConsistency(projected_value, consistency_score, future_age, year_offset) ==
    LET consistency_factor == Max2(50, consistency_score)
        band_idx == Min2(year_offset - 1, Len(BASE_CONFIDENCE_WIDTHS) - 1)
        base_width == BASE_CONFIDENCE_WIDTHS[band_idx + 1]
        age_widening == IF future_age > 32 THEN 10 + (future_age - 32) ELSE 10
    IN  (projected_value * base_width * age_widening * consistency_factor) \div 100000

\* band = projected_value * adjusted_width, in milli
Band(projected_value, consistency_score, future_age, year_offset) ==
    LET consistency_factor == Max2(50, consistency_score)       \* hundredths
        band_idx == Min2(year_offset - 1, Len(BASE_CONFIDENCE_WIDTHS) - 1)
        base_width == BASE_CONFIDENCE_WIDTHS[band_idx + 1]
        age_widening == IF future_age > 32 THEN 10 + (future_age - 32) ELSE 10
    IN  (projected_value * base_width * age_widening) \div (consistency_factor * 10)

\* the upper bound without its cap at 100
UpperBoundUncapped(projected_value, band) == projected_value + band

UpperBound(projected_value, band) == Min2(100000, projected_value + band)

LowerBound(projected_value, band) == Max2(0, projected_value - band)

RoundTenths(x) == RoundHalfEven(x, 100)

\* TrajectoryPoint, the three values in tenths
Point(est_peak, current_age, player_type, improvement_score, consistency_score, current_season, year_offset) ==
    LET pv == ProjectedValue(est_peak, current_age, player_type,
                             improvement_score, year_offset)
        band == Band(pv, consistency_score, current_age + year_offset, year_offset)
    IN  [season |-> current_season + year_offset,
         projected_value |-> RoundTenths(pv),
         upper_bound |-> RoundTenths(UpperBound(pv, band)),
         lower_bound |-> RoundTenths(LowerBound(pv, band)),
         age |-> current_age + year_offset]

\* current_value in points, first_future in tenths
_grade_trajectory(current_age, peak_age, improvement_score, trajectory, current_value) ==
    LET years_from_peak == current_age - peak_age
    IN  IF trajectory = <<>> THEN "Unknown"
        ELSE IF years_from_peak < -2 /\ improvement_score > 20 THEN "Rising"
        ELSE IF years_from_peak < -1 THEN "Rising"
        ELSE IF Abs(years_from_peak) <= 1
        THEN (IF improvement_score > 10 THEN "Peak"
              ELSE IF improvement_score < -10 THEN "Declining"
              ELSE "Peak")
        ELSE IF years_from_peak <= 4
        THEN (IF trajectory[1].projected_value >= current_value * 9
              THEN "Plateau" ELSE "Declining")
        ELSE "Late Career"

\* the first year_offset whose unrounded projected_value is the largest, or 0
\* when no year exceeds the initial 0.0
RECURSIVE PeakOffset(_, _, _, _)
PeakOffset(pvs, i, best, best_i) ==
    IF i > Len(pvs) THEN best_i
    ELSE IF pvs[i] > best THEN PeakOffset(pvs, i + 1, pvs[i], i)
    ELSE PeakOffset(pvs, i + 1, best, best_i)

project_career_trajectory(current_age, current_value, player_type, improvement_score, consistency_score, projection_years, current_season) ==
    LET est_peak == EstimatedPeakValue(current_age, current_value, player_type,
                                       improvement_score)
        points == [y \in 1..projection_years |->
                      Point(est_peak, current_age, player_type, improvement_score,
                            consistency_score, current_season, y)]
        pvs == [y \in 1..projection_years |->
                   ProjectedValue(est_peak, current_age, player_type,
                                  improvement_score, y)]
        peak == PeakOffset(pvs, 1, 0, 0)
    IN  [current_value |-> 10 * current_value,
         trajectory |-> points,
         peak_season |-> current_season + (IF peak = 0 THEN 1 ELSE peak),
         peak_value |-> IF peak = 0 THEN 0 ELSE RoundTenths(pvs[peak]),
         career_war_remaining |->
             SumSeq([y \in 1..projection_years |-> points[y].projected_value]),
         trajectory_grade |->
             _grade_trajectory(current_age, TrajectoryPeakAge(player_type),
                               improvement_score, points, current_value)]

MaxAge == 42
MaxYears == 9

TrajectoryAges == 18..MaxAge
CurrentValues == {0, 35, 80, 100}
ImprovementScores == {-100, -30, 0, 30, 100}
ConsistencyScores == {0, 30, 50, 80, 100}
ProjectionYears == {1, 6, MaxYears}

TrajInit ==
    \E a \in TrajectoryAges, cv \in CurrentValues, t \in PlayerTypes,
       imp \in ImprovementScores, cs \in ConsistencyScores, n \in ProjectionYears :
        traj = [pc |-> "start", current_age |-> a, current_value |-> cv,
                player_type |-> t, improvement_score |-> imp,
                consistency_score |-> cs, projection_years |-> n, out |-> None]
    /\ value = Idle /\ auction = Idle /\ pred = Idle /\ batch = Idle /\ save = Idle /\ skills = Idle /\ surplus = Idle /\ dynpool = Idle /\ mproj = Idle /\ yoy = Idle /\ training = Idle /\ monitor = Idle

ProjectCareerTrajectory ==
    /\ traj.pc = "start"
    /\ traj' = [traj EXCEPT
                  !.pc = "done",
                  !.out = project_career_trajectory(
                              traj.current_age, traj.current_value,
                              traj.player_type, traj.improvement_score,
                              traj.consistency_score, traj.projection_years,
                              DEFAULT_CURRENT_SEASON)]
    /\ UNCHANGED <<value, auction, pred, batch, save, skills, surplus, dynpool, mproj, yoy, training, monitor>>

SpecTraj ==
    /\ TrajInit
    /\ [][ProjectCareerTrajectory]_vars

TrajDone == traj.pc = "done"

\* C10: every trajectory point of every call satisfies
\* 0 <= lower_bound <= projected_value <= upper_bound <= 100 (tenths).
C10_BoundsOrdered ==
    TrajDone =>
        \A y \in 1..Len(traj.out.trajectory) :
            LET p == traj.out.trajectory[y]
            IN  /\ 0 <= p.lower_bound
                /\ p.lower_bound <= p.projected_value
                /\ p.projected_value <= p.upper_bound
                /\ p.upper_bound <= 1000

\* a trajectory with a point whose band is cut by the cap at 100 and one whose
\* band is strictly inside (0, 100) has been projected
C10_Witness ==
    /\ TrajDone
    /\ \E y \in 1..Len(traj.out.trajectory) :
          LET p == traj.out.trajectory[y]
          IN  p.upper_bound = 1000 /\ p.projected_value < 1000 /\ p.lower_bound > 0
    /\ \E y \in 1..Len(traj.out.trajectory) :
          LET p == traj.out.trajectory[y]
          IN  /\ 0 < p.lower_bound /\ p.lower_bound < p.projected_value
              /\ p.projected_value < p.upper_bound /\ p.upper_bound < 1000

\* upper_bound - lower_bound of a trajectory point, in tenths
BandWidth(point) == point.upper_bound - point.lower_bound

\* C11: along every trajectory the band width never shrinks from one year to
\* the next.
C11_BandWidthNonDecreasing ==
    TrajDone =>
        \A y \in 1..(Len(traj.out.trajectory) - 1) :
            BandWidth(traj.out.trajectory[y + 1]) >= BandWidth(traj.out.trajectory[y])

\* the part of C11 the code keeps: while the lower bound is above 0 and the
\* upper bound below 100, a band one year further out of a value that has not
\* dropped is at least as wide
BandWidensWhileValueHolds ==
    TrajDone =>
        \A y \in 1..(Len(traj.out.trajectory) - 1) :
            LET p == traj.out.trajectory[y]
                q == traj.out.trajectory[y + 1]
            IN  (q.projected_value >= p.projected_value
                    /\ p.lower_bound > 0 /\ q.lower_bound > 0
                    /\ p.upper_bound < 1000 /\ q.upper_bound < 1000)
                => BandWidth(q) >= BandWidth(p) - 1

\* the band width at year y of the same call with another consistency_score
WidthWithConsistency(c, y) ==
    BandWidth(Point(EstimatedPeakValue(traj.current_age, traj.current_value,
                                       traj.player_type, traj.improvement_score),
                    traj.current_age, traj.player_type, traj.improvement_score,
                    c, DEFAULT_CURRENT_SEASON, y))

\* C12: of two calls that differ only in consistency_score, the one with the
\* lower score has, at every year, a band at least as wide.
C12_LowerConsistencyWiderBand ==
    TrajDone =>
        \A c \in ConsistencyScores :
            c > traj.consistency_score =>
                \A y \in 1..Len(traj.out.trajectory) :
                    BandWidth(traj.out.trajectory[y]) >= WidthWithConsistency(c, y)

\* a call with consistency 30 has been projected whose third-year band is
\* strictly wider than that of the same call with consistency 80
C12_Witness ==
    /\ TrajDone
    /\ traj.consistency_score = 30
    /\ Len(traj.out.trajectory) >= 3
    /\ BandWidth(traj.out.trajectory[3]) > WidthWithConsistency(80, 3)
    /\ WidthWithConsistency(80, 3) > 0

\* C13: a player at or past peak age with improvement_score <= 0 has a
\* projected_value sequence that never rises; a player of 33 or older with a
\* negative improvement_score is graded Declining or Late Career.
C13_PastPeakDeclines ==
    TrajDone =>
        /\ (traj.current_age >= TrajectoryPeakAge(traj.player_type)
               /\ traj.improvement_score <= 0) =>
              \A y \in 1..(Len(traj.out.trajectory) - 1) :
                  traj.out.trajectory[y + 1].projected_value
                      <= traj.out.trajectory[y].projected_value
        /\ (traj.current_age >= 33 /\ traj.improvement_score < 0) =>
              traj.out.trajectory_grade \in {"Declining", "Late Career"}

\* the 35-year-old batter with improvement_score -30 has been projected over
\* six years: every year strictly lower than the one before, Late Career
C13_Witness ==
    /\ TrajDone
    /\ traj.current_age = 35 /\ traj.improvement_score = -30
    /\ traj.player_type = "batter" /\ traj.current_value = 80
    /\ Len(traj.out.trajectory) = 6
    /\ \A y \in 1..5 :
          traj.out.trajectory[y + 1].projected_value
              < traj.out.trajectory[y].projected_value
    /\ traj.out.trajectory_grade = "Late Career"

---------------------------------------------------------------------------
(* Inference: backend/ml/inference/predictor.py *)

\* model_files, in the order load_models walks it
ModelFiles ==
    <<"sleeper_batter", "sleeper_pitcher", "bust_batter", "bust_pitcher",
      "regression_batter", "regression_pitcher">>

ArtifactNames == {ModelFiles[i] : i \in 1..Len(ModelFiles)}

\* the file of an artifact: a usable model; no file; a file joblib.load cannot
\* read; a file that loads to something the predict function cannot use
ArtifactStates == {"ok", "missing", "corrupt", "unusable"}

Batters == {1, 2}
Pitchers == {3, 4}
PlayersOfType(player_type) == IF player_type = "batter" THEN Batters ELSE Pitchers

ArtifactKey(signal, player_type) ==
    CASE signal = "sleeper" /\ player_type = "batter" -> "sleeper_batter"
      [] signal = "sleeper" /\ player_type = "pitcher" -> "sleeper_pitcher"
      [] signal = "bust" /\ player_type = "batter" -> "bust_batter"
      [] signal = "bust" /\ player_type = "pitcher" -> "bust_pitcher"
      [] signal = "regression" /\ player_type = "batter" -> "regression_batter"
      [] signal = "regression" /\ player_type = "pitcher" -> "regression_pitcher"

\* what a usable model predicts for a player (any non-neutral values)
PredictedSleeper == Num(80)
PredictedBust == Num(20)
PredictedRegression == Num(2)

\* the index of the first artifact whose load raises, 0 when none does
RECURSIVE FirstCorrupt(_, _)
FirstCorrupt(artifacts, i) ==
    IF i > Len(ModelFiles) THEN 0
    ELSE IF artifacts[ModelFiles[i]] = "corrupt" THEN i
    ELSE FirstCorrupt(artifacts, i + 1)

\* self.models after load_models: every file that exists, up to the one whose
\* joblib.load raises
LoadedModels(artifacts) ==
    LET stop == FirstCorrupt(artifacts, 1)
        last == IF stop = 0 THEN Len(ModelFiles) ELSE stop - 1
    IN  {ModelFiles[i] : i \in {j \in 1..last : artifacts[ModelFiles[j]] # "missing"}}

LoadRaises(artifacts) == FirstCorrupt(artifacts, 1) # 0

\* the default of a signal whose model is not loaded
NeutralScore == Num(50)
NeutralRegression == Num(0)

\* the sleeper, bust and regression columns of _predict_player_type
SignalColumns(models, player_type) ==
    [sleeper_score |->
         IF ArtifactKey("sleeper", player_type) \in models
         THEN PredictedSleeper ELSE NeutralScore,
     bust_score |->
         IF ArtifactKey("bust", player_type) \in models
         THEN PredictedBust ELSE NeutralScore,
     regression_direction |->
         IF ArtifactKey("regression", player_type) \in models
         THEN PredictedRegression ELSE NeutralRegression,
     regression_magnitude |->
         IF ArtifactKey("regression", player_type) \in models
         THEN Num(Abs(PredictedRegression.v)) ELSE NeutralRegression]

\* a statistical score column after the left merge: None for everyone when the
\* scorer returned an empty frame, NaN for the players it did not score
MergedColumn(scored, player_type, pid, score) ==
    IF scored \cap PlayersOfType(player_type) = {} THEN None
    ELSE IF pid \in scored THEN score
    ELSE NaN

PredictorAge == Num(27)

\* one row of _predict_player_type's result
PredictedRow(models, qualified, player_type, pid) ==
    LET sig == SignalColumns(models, player_type)
        row == [sleeper_score |-> sig.sleeper_score,
                bust_score |-> sig.bust_score,
                consistency_score |->
                    MergedColumn(qualified, player_type, pid, Num(70)),
                improvement_score |->
                    MergedColumn(qualified, player_type, pid, Num(20)),
                auction_value |-> Num(10),
                dynasty_value |-> Num(50)]
        scored == ScoreRow(row, PredictorAge, player_type, EmptyWeights)
    IN  [player_id |-> pid, player_type |-> player_type,
         sleeper_score |-> sig.sleeper_score, bust_score |-> sig.bust_score,
         regression_direction |-> sig.regression_direction,
         regression_magnitude |-> sig.regression_magnitude,
         consistency_score |-> row.consistency_score,
         improvement_score |-> row.improvement_score,
         auction_value |-> row.auction_value,
         dynasty_value |-> row.dynasty_value,
         ai_value_score |-> scored.ai_value_score,
         value_components |-> scored.value_components]

\* a loaded model whose predict function raises
PredictRaises(artifacts, models) ==
    \E n \in models : artifacts[n] = "unusable"

\* the players with at least two qualifying seasons (and so a consistency and
\* an improvement score): nobody, one of each type, everybody
QualifiedSets == {{}, {1, 3}, {1, 2, 3, 4}}

PredInit ==
    \E a \in [ArtifactNames -> ArtifactStates], q \in QualifiedSets :
        pred = [pc |-> "new", artifacts |-> a, qualified |-> q, models |-> {},
                scores |-> <<>>]
    /\ value = Idle /\ auction = Idle /\ traj = Idle /\ batch = Idle /\ save = Idle /\ skills = Idle /\ surplus = Idle /\ dynpool = Idle /\ mproj = Idle /\ yoy = Idle /\ training = Idle /\ monitor = Idle

\* Predictor.load_models
load_models ==
    /\ pred.pc = "new"
    /\ pred' = [pred EXCEPT
                  !.models = LoadedModels(pred.artifacts),
                  !.pc = IF LoadRaises(pred.artifacts)
                         THEN "load_raised" ELSE "loaded"]
    /\ UNCHANGED <<value, auction, traj, batch, save, skills, surplus, dynpool, mproj, yoy, training, monitor>>

\* Predictor.predict_all: batters, then pitchers, then the concatenation
predict_all ==
    /\ pred.pc = "loaded"
    /\ pred' =
         IF PredictRaises(pred.artifacts, pred.models)
         THEN [pred EXCEPT !.pc = "predict_raised"]
         ELSE [pred EXCEPT
                 !.pc = "predicted",
                 !.scores =
                    [pid \in Batters \cup Pitchers |->
                        PredictedRow(pred.models, pred.qualified,
                                     IF pid \in Batters THEN "batter" ELSE "pitcher",
                                     pid)]]
    /\ UNCHANGED <<value, auction, traj, batch, save, skills, surplus, dynpool, mproj, yoy, training, monitor>>

SpecPredictor ==
    /\ PredInit
    /\ [][load_models \/ predict_all]_vars

SignalIsNeutral(row, signal) ==
    CASE signal = "sleeper" -> row.sleeper_score = Num(50)
      [] signal = "bust" -> row.bust_score = Num(50)
      [] signal = "regression" ->
            row.regression_direction = Num(0) /\ row.regression_magnitude = Num(0)

SignalIsPredicted(row, signal) ==
    CASE signal = "sleeper" -> row.sleeper_score = PredictedSleeper
      [] signal = "bust" -> row.bust_score = PredictedBust
      [] signal = "regression" -> row.regression_direction = PredictedRegression

Signals == {"sleeper", "bust", "regression"}

\* C5: whatever is wrong with an artifact (missing, corrupt, unusable),
\* load_models and predict_all do not raise, the players of its type get the
\* neutral value of its signal, and the signals of usable artifacts keep their
\* predictions.
C5_UnusableArtifactIsNeutral ==
    /\ pred.pc \notin {"load_raised", "predict_raised"}
    /\ pred.pc = "predicted" =>
          \A sg \in Signals, t \in PlayerTypes : \A pid \in PlayersOfType(t) :
              IF pred.artifacts[ArtifactKey(sg, t)] = "ok"
              THEN SignalIsPredicted(pred.scores[pid], sg)
              ELSE SignalIsNeutral(pred.scores[pid], sg)

\* the part of C5 the code keeps: with every artifact either usable or
\* missing, nothing raises and a missing artifact gives the neutral value
MissingArtifactIsNeutral ==
    (\A n \in ArtifactNames : pred.artifacts[n] \in {"ok", "missing"}) =>
        /\ pred.pc \notin {"load_raised", "predict_raised"}
        /\ pred.pc = "predicted" =>
              \A sg \in Signals, t \in PlayerTypes : \A pid \in PlayersOfType(t) :
                  IF pred.artifacts[ArtifactKey(sg, t)] = "ok"
                  THEN SignalIsPredicted(pred.scores[pid], sg)
                  ELSE SignalIsNeutral(pred.scores[pid], sg)

\* the NaN of the left merge reaches the composite scorer: a player without a
\* consistency score, scored next to one who has it, gets ai_value_score 100
MergeNaNReachesScorer ==
    /\ pred.pc = "predicted"
    /\ pred.scores[2].consistency_score = NaN
    /\ pred.scores[2].ai_value_score = 1000


---------------------------------------------------------------------------
(* The per-player loops of the batch functions: how each treats a player
   without an age and a player whose computation raises. *)

BatchSize == 3
BatchPlayers == 1..BatchSize

\* the age input of a player: no entry, or an age
BatchAges == {Missing, Num(24), Num(33)}

Stages ==
    {"features", "marcel", "consistency", "improvement", "dynasty", "composite",
     "trajectory"}

\* the stages whose computation takes the player's age
AgeStages == Stages \ {"consistency"}

\* player_ages.get(pid) followed by "if age is None: continue"
SkipsAbsentAge(stage) == stage \in {"features", "marcel", "improvement"}

DEFAULT_DYNASTY_AGE == 30
DEFAULT_TRAJECTORY_AGE == 28

\* the age a stage computes with for a player
AgeUsed(stage, age) ==
    IF stage = "consistency" THEN None
    ELSE IF age # Missing THEN age
    ELSE CASE stage = "dynasty" -> Num(DEFAULT_DYNASTY_AGE)
           [] stage = "composite" -> Num(DEFAULT_COMPOSITE_AGE)
           [] stage = "trajectory" -> Num(DEFAULT_TRAJECTORY_AGE)
           [] OTHER -> None

\* the players whose computation the loop starts
Computed(stage, ages) ==
    {p \in BatchPlayers : ~(SkipsAbsentAge(stage) /\ ages[p] = Missing)}

\* a stage whose loop body catches the exception of one player and goes on
CatchesPerPlayer(stage) == stage = "trajectory"

\* the row the composite scorer is given for every player of the batch
BatchRow ==
    [sleeper_score |-> Num(60), bust_score |-> Num(40),
     consistency_score |-> Num(70), improvement_score |-> Num(20),
     auction_value |-> Num(10), dynasty_value |-> Num(50)]

\* what a stage returns for one player
StageOutput(stage, age) ==
    IF stage = "composite"
    THEN [age_used |-> AgeUsed(stage, age),
          score |-> ScoreRow(BatchRow, AgeUsed(stage, age), "batter",
                             EmptyWeights).ai_value_score]
    ELSE [age_used |-> AgeUsed(stage, age), score |-> 0]

\* one run of a batch function over the players: an exception of a player's
\* computation leaves the function unless the loop body catches it
RunStage(stage, ages, faulty) ==
    LET computed == Computed(stage, ages)
        failed == computed \cap faulty
    IN  IF failed # {} /\ ~CatchesPerPlayer(stage)
        THEN [status |-> "raised", results |-> <<>>]
        ELSE [status |-> "returned",
              results |-> [p \in computed \ failed |-> StageOutput(stage, ages[p])]]

Pending == [status |-> "pending", results |-> <<>>]

BatchInit ==
    \E ages \in [BatchPlayers -> BatchAges], faulty \in SUBSET BatchPlayers :
        batch = [pc |-> "ready", ages |-> ages, faulty |-> faulty,
                 out |-> [s \in Stages |-> Pending]]
    /\ value = Idle /\ auction = Idle /\ traj = Idle /\ pred = Idle /\ save = Idle /\ skills = Idle /\ surplus = Idle /\ dynpool = Idle /\ mproj = Idle /\ yoy = Idle /\ training = Idle /\ monitor = Idle

Run(stage) ==
    /\ batch.pc = "ready"
    /\ batch.out[stage] = Pending
    /\ batch' = [batch EXCEPT
                   !.out[stage] = RunStage(stage, batch.ages, batch.faulty)]
    /\ UNCHANGED <<value, auction, traj, pred, save, skills, surplus, dynpool, mproj, yoy, training, monitor>>

\* engineer_batting_features / engineer_pitching_features
engineer_batting_features == Run("features")

\* project_all_batters / project_all_pitchers
project_all_batters == Run("marcel")

\* calculate_batter_consistency / calculate_pitcher_consistency
calculate_batter_consistency == Run("consistency")

\* calculate_batter_improvement / calculate_pitcher_improvement
calculate_batter_improvement == Run("improvement")

\* calculate_dynasty_value
calculate_dynasty_value == Run("dynasty")

\* the loop of calculate_ai_value_scores over the rows of a frame
calculate_ai_value_scores_rows == Run("composite")

\* batch_project_trajectories
batch_project_trajectories == Run("trajectory")

SpecBatch ==
    /\ BatchInit
    /\ [][engineer_batting_features \/ project_all_batters
          \/ calculate_batter_consistency \/ calculate_batter_improvement
          \/ calculate_dynasty_value \/ calculate_ai_value_scores_rows
          \/ batch_project_trajectories]_vars

\* C4: no stage that takes an age returns a result for a player absent from
\* the age input: such a player is skipped, never given an assumed age.
C4_AbsentAgeIsSkipped ==
    \A s \in AgeStages :
        batch.out[s].status = "returned" =>
            \A p \in DOMAIN batch.out[s].results : batch.ages[p] # Missing

\* the part of C4 the code keeps: feature engineering, Marcel and improvement
\* skip a player who has no age
SkippingStagesSkip ==
    \A s \in {"features", "marcel", "improvement"} :
        batch.out[s].status = "returned" =>
            \A p \in DOMAIN batch.out[s].results : batch.ages[p] # Missing

\* the assumed age changes the result: the composite score of a player without
\* an age is the score of a 30-year-old
AssumedAgeIsScored ==
    /\ batch.out["composite"].status = "returned"
    /\ \E p \in DOMAIN batch.out["composite"].results :
          /\ batch.ages[p] = Missing
          /\ batch.out["composite"].results[p].age_used = Num(30)

\* C6: a stage that has run has returned, with a result for every player whose
\* own computation did not raise, whatever happened to the others.
C6_RaiseIsIsolated ==
    \A s \in Stages :
        batch.out[s] # Pending =>
            /\ batch.out[s].status = "returned"
            /\ (Computed(s, batch.ages) \ batch.faulty)
                   \subseteq DOMAIN batch.out[s].results

\* the part of C6 the code keeps: batch_project_trajectories skips the player
\* that raised and returns the others
TrajectoryBatchIsolates ==
    batch.out["trajectory"] # Pending =>
        /\ batch.out["trajectory"].status = "returned"
        /\ DOMAIN batch.out["trajectory"].results = BatchPlayers \ batch.faulty


---------------------------------------------------------------------------
(* The persistence boundary: scripts/run_inference.py *)

\* values of a scores row beyond the Python floats above: text, dicts, lists.
\* Numbers at this boundary are in units of 1e-5.
Str == [k |-> "str", v |-> 0]
Dict(items) == [k |-> "dict", items |-> items]
List(items) == [k |-> "list", items |-> items]

\* round(f, 4) of a finite float
Round4(n) == 10 * RoundHalfEven(n, 10)

\* _safe_float: None for None, for what float() rejects and for NaN;
\* round(f, 4) otherwise, which leaves an infinity as it is
_safe_float(val) ==
    CASE val.k \in {"none", "missing"} -> None
      [] val.k \in {"str", "dict", "list"} -> None
      [] val.k = "nan" -> None
      [] val.k \in {"inf", "ninf"} -> val
      [] val.k = "num" -> Num(Round4(val.v))

RECURSIVE _sanitize_jsonb(_)
\* _sanitize_jsonb: None for None, NaN and the infinities; dicts and lists
\* rebuilt from their sanitized members; everything else as it is
_sanitize_jsonb(val) ==
    CASE val.k \in {"none", "missing"} -> None
      [] val.k \in {"nan", "inf", "ninf"} -> None
      [] val.k = "num" -> val
      [] val.k = "dict" ->
            Dict([key \in DOMAIN val.items |-> _sanitize_jsonb(val.items[key])])
      [] val.k = "list" ->
            List([i \in DOMAIN val.items |-> _sanitize_jsonb(val.items[i])])
      [] val.k = "str" -> val

\* the fields of a projection that go through _safe_float
ScalarFields ==
    {"sleeper_score", "bust_score", "regression_direction",
     "regression_magnitude", "consistency_score", "improvement_score",
     "ai_value_score", "confidence", "auction_value", "dynasty_value",
     "surplus_value"}

\* the fields of a projection that go through _sanitize_jsonb
NestedFields ==
    {"shap_explanations", "stat_consistency_breakdown",
     "stat_improvement_breakdown", "marcel_projections"}

\* x or {} on a sanitized value: None and the empty dict are falsy
OrEmptyDict(x) ==
    IF x.k = "none" \/ (x.k = "dict" /\ DOMAIN x.items = {}) THEN Dict(<<>>) ELSE x

\* d[key] = item
DictPut(d, key, item) ==
    Dict([j \in DOMAIN d.items \cup {key} |->
             IF j = key THEN item ELSE d.items[j]])

\* the values the insert is given for one row of scores
ProjectionValues(row, marcel) ==
    LET base == [f \in ScalarFields \cup NestedFields |->
                    IF f \in ScalarFields THEN _safe_float(row[f])
                    ELSE IF f = "marcel_projections" THEN _sanitize_jsonb(marcel)
                    ELSE _sanitize_jsonb(row[f])]
        vc == row["value_components"]
        shap == OrEmptyDict(base["shap_explanations"])
    IN  IF vc.k = "dict"
        THEN IF shap.k = "dict"
             THEN [base EXCEPT !["shap_explanations"] =
                      DictPut(shap, "value_components", _sanitize_jsonb(vc))]
             ELSE [base EXCEPT !["shap_explanations"] = shap]
        ELSE base

\* the floats a score can hold when it reaches the boundary
SaveScalars == {None, NaN, PosInf, NegInf, Num(1234567), Str}
SaveFloats == {Num(250000), NaN, PosInf, NegInf}

ShapInputs ==
    {NaN} \cup
    {Dict([signal \in {"sleeper", "bust"} |->
            IF signal = "sleeper"
            THEN List(<<Dict([key \in {"feature", "shap_value"} |->
                                IF key = "feature" THEN Str ELSE x])>>)
            ELSE List(<<>>)]) : x \in SaveFloats}

BreakdownInputs ==
    {NaN} \cup
    {Dict([stat \in {"k_pct"} |->
            Dict([key \in {"cv", "consistency"} |->
                    IF key = "cv" THEN x ELSE Num(8000000)])]) : x \in SaveFloats}

ValueComponentInputs ==
    {NaN} \cup {Dict([c \in {"age_curve"} |-> x]) : x \in {Num(9000000), NaN}}

MarcelInputs == {Missing, Dict([stat \in {"hr"} |-> Num(2500000)])}

\* a scores row whose scalar field f holds v, the others an ordinary score
SaveRow(f, v, shap, breakdown, vc) ==
    [g \in ScalarFields \cup NestedFields \cup {"value_components"} |->
        CASE g = f -> v
          [] g \in ScalarFields \ {f} -> Num(5000000)
          [] g = "shap_explanations" -> shap
          [] g = "stat_consistency_breakdown" -> breakdown
          [] g = "stat_improvement_breakdown" -> NaN
          [] g = "marcel_projections" -> Missing
          [] g = "value_components" -> vc]

SaveInit ==
    \E f \in ScalarFields, v \in SaveScalars, shap \in ShapInputs,
       breakdown \in BreakdownInputs, vc \in ValueComponentInputs,
       marcel \in MarcelInputs :
        save = [pc |-> "start", row |-> SaveRow(f, v, shap, breakdown, vc),
                marcel |-> marcel, values |-> <<>>]
    /\ value = Idle /\ auction = Idle /\ traj = Idle /\ pred = Idle /\ batch = Idle /\ skills = Idle /\ surplus = Idle /\ dynpool = Idle /\ mproj = Idle /\ yoy = Idle /\ training = Idle /\ monitor = Idle

\* _save_projections, for one row of scores
_save_projections ==
    /\ save.pc = "start"
    /\ save' = [save EXCEPT !.pc = "done",
                            !.values = ProjectionValues(save.row, save.marcel)]
    /\ UNCHANGED <<value, auction, traj, pred, batch, skills, surplus, dynpool, mproj, yoy, training, monitor>>

SpecSave ==
    /\ SaveInit
    /\ [][_save_projections]_vars

RECURSIVE HasNonFinite(_)
\* a NaN or an infinity somewhere in a value
HasNonFinite(val) ==
    CASE val.k \in {"nan", "inf", "ninf"} -> TRUE
      [] val.k = "dict" -> \E key \in DOMAIN val.items : HasNonFinite(val.items[key])
      [] val.k = "list" -> \E i \in DOMAIN val.items : HasNonFinite(val.items[i])
      [] OTHER -> FALSE

\* C7: no field of the values handed to the insert, scalar or nested, holds a
\* NaN or an infinity: each one has become null.
C7_SavedValuesAreFiniteOrNull ==
    save.pc = "done" =>
        \A f \in ScalarFields \cup NestedFields : ~HasNonFinite(save.values[f])

\* the part of C7 the code keeps: the nested fields hold no NaN and no
\* infinity at any depth, and a NaN scalar is saved as null
NestedAndNaNAreNull ==
    save.pc = "done" =>
        /\ \A f \in NestedFields : ~HasNonFinite(save.values[f])
        /\ \A f \in ScalarFields : save.row[f] = NaN => save.values[f] = None

\* an infinite scalar is saved as it came, next to a nested infinity that was
\* replaced
InfiniteScalarIsSaved ==
    /\ save.pc = "done"
    /\ save.row["surplus_value"] = PosInf
    /\ save.values["surplus_value"] = PosInf
    /\ HasNonFinite(save.row["shap_explanations"])
    /\ ~HasNonFinite(save.values["shap_explanations"])


---------------------------------------------------------------------------
(* Consistency and improvement scoring: backend/ml/models/consistency_model.py
   and improvement_model.py.  One player's seasons are a sequence in
   chronological order; a statistic is an integer number of percentage
   points.  Both scores are scale-free in the statistics. *)

\* stat -> tier weight in tenths
BATTER_STICKY_STATS ==
    [k_pct |-> 10, bb_pct |-> 10, iso |-> 10, barrel_pct |-> 7,
     avg_exit_velocity |-> 7, hard_hit_pct |-> 7, gb_pct |-> 7, fb_pct |-> 7,
     woba |-> 4, wrc_plus |-> 4, sprint_speed |-> 4]

PITCHER_STICKY_STATS ==
    [k_pct |-> 10, k_bb_pct |-> 10, swstr_pct |-> 10, csw_pct |-> 7,
     gb_pct |-> 7, fip |-> 7, siera |-> 7, xera |-> 4, stuff_plus |-> 4]

\* stat -> (higher_is_improvement, weight in tenths)
HITTER_SKILLS_STATS ==
    [k_pct |-> [up |-> FALSE, w |-> 10], bb_pct |-> [up |-> TRUE, w |-> 10],
     barrel_pct |-> [up |-> TRUE, w |-> 7], hard_hit_pct |-> [up |-> TRUE, w |-> 7],
     avg_exit_velocity |-> [up |-> TRUE, w |-> 7],
     sprint_speed |-> [up |-> TRUE, w |-> 4]]

PITCHER_SKILLS_STATS ==
    [k_pct |-> [up |-> TRUE, w |-> 10], bb_pct |-> [up |-> FALSE, w |-> 10],
     k_bb_pct |-> [up |-> TRUE, w |-> 10], swstr_pct |-> [up |-> TRUE, w |-> 7],
     csw_pct |-> [up |-> TRUE, w |-> 7], gb_pct |-> [up |-> TRUE, w |-> 7]]

MIN_SEASONS == 2
PREFERRED_SEASONS == 3

\* the age multiplier in tenths
_get_age_multiplier(age) ==
    IF age < 27 THEN 12
    ELSE IF age < 30 THEN 10
    ELSE IF age < 33 THEN 6
    ELSE 3

\* min_playing_time: 200 PA for batters, 40 IP for pitchers
MinPlayingTime(player_type) == IF player_type = "batter" THEN 200 ELSE 40

\* the statistic columns the season frames of the model carry
SeasonColumns == {"k_pct", "bb_pct"}

\* a threshold that lets every season qualify
QualifiesAlways(season, player_type) == TRUE

\* playing time present and at least the threshold
Qualifies(season, player_type) == season.pt >= MinPlayingTime(player_type)

\* the qualifying seasons, most recent PREFERRED_SEASONS of them, oldest first
QualifyingSeasons(seasons, player_type) ==
    LET q == SelectSeq(seasons, LAMBDA s : Qualifies(s, player_type))
    IN  IF Len(q) <= PREFERRED_SEASONS THEN q
        ELSE SubSeq(q, Len(q) - PREFERRED_SEASONS + 1, Len(q))

\* the values of a statistic over the qualifying seasons, oldest first
StatValues(qualifying, stat) == [i \in 1..Len(qualifying) |-> qualifying[i][stat]]

SumSquares(y) == SumSeq([i \in 1..Len(y) |-> y[i] * y[i]])

\* n * sum(y^2) - sum(y)^2 = n * sum((y - mean)^2)
Spread(y) == Len(y) * SumSquares(y) - SumSeq(y) * SumSeq(y)

\* the integer square root, by bisection on lo..hi
RECURSIVE ISqrt(_, _, _)
ISqrt(x, lo, hi) ==
    IF lo >= hi THEN lo
    ELSE LET mid == (lo + hi + 1) \div 2
         IN  IF mid * mid <= x THEN ISqrt(x, mid, hi) ELSE ISqrt(x, lo, mid - 1)

\* (1e8 * num) \div den without leaving 32 bits, for num \div den below 1e6
Scale8(num, den) ==
    100 * ((1000000 * num) \div den) + (100 * ((1000000 * num) % den)) \div den

\* min(cv, 1.0) in ten-thousandths, cv = std(ddof=1) / |mean|, or std * 10
\* when the mean is 0 (values in hundredths)
NormalizedCv(y) ==
    LET n == Len(y)
        t == SumSeq(y)
        num == IF t # 0 THEN n * Spread(y) ELSE Spread(y)
        den == IF t # 0 THEN (n - 1) * t * t ELSE 100 * n * (n - 1)
    IN  IF num >= den THEN 10000 ELSE ISqrt(Scale8(num, den), 0, 10000)

\* the statistics of a table that are scored: a column of the frame with at
\* least MIN_SEASONS values
ScoredStats(table, qualifying) ==
    {stat \in DOMAIN table \cap SeasonColumns : Len(qualifying) >= MIN_SEASONS}

\* consistency_score in tenths: round(100 * weighted mean of (1 - cv), 1)
ConsistencyScore(table, qualifying) ==
    LET stats == ScoredStats(table, qualifying)
        weighted_sum == SumOver(stats,
            [s \in stats |-> table[s] * (10000 - NormalizedCv(StatValues(qualifying, s)))])
        weight_total == SumOver(stats, [s \in stats |-> table[s]])
    IN  RoundHalfEven(weighted_sum, 10 * weight_total)

\* one player of _calculate_consistency: Missing when the player is skipped
_calculate_consistency(seasons, table, player_type) ==
    LET qualifying == QualifyingSeasons(seasons, player_type)
    IN  IF Len(qualifying) < MIN_SEASONS THEN Missing
        ELSE IF ScoredStats(table, qualifying) = {} THEN Missing
        ELSE [k |-> "num", v |-> ConsistencyScore(table, qualifying),
              seasons_used |-> Len(qualifying)]

\* 2 * sum((x - mean(x)) * y) for x = 0, 1, .., n - 1
TwiceSxy(y) ==
    SumSeq([i \in 1..Len(y) |-> (2 * (i - 1) - (Len(y) - 1)) * y[i]])

\* 4 * sum((x - mean(x))^2)
FourSxx(y) ==
    SumSeq([i \in 1..Len(y) |->
               (2 * (i - 1) - (Len(y) - 1)) * (2 * (i - 1) - (Len(y) - 1))])

\* stat_signal without the sign flip of a lower-is-better statistic
StatSignalIgnoresDirection(y, up) ==
    LET n == Len(y)
        a == TwiceSxy(y)
        b == FourSxx(y)
        t == Abs(SumSeq(y))
        num == IF t # 0 THEN 2 * n * n * a * a * a
               ELSE 2 * n * a * a * a
        den == IF t # 0 THEN b * b * t * Spread(y)
               ELSE 100 * b * b * Spread(y)
        signal == IF Spread(y) = 0 THEN 0 ELSE RoundHalfEven(10000 * num, den)
    IN  signal

\* stat_signal = normalized_slope * r_squared in ten-thousandths, with
\* slope = Sxy / Sxx, r_squared = Sxy^2 / (Sxx * Syy) (0 when Syy is 0) and
\* normalized_slope = slope / |mean| (slope itself when the mean is 0)
StatSignal(y, up) ==
    LET n == Len(y)
        a == TwiceSxy(y)
        b == FourSxx(y)
        t == Abs(SumSeq(y))
        num == IF t # 0 THEN 2 * n * n * a * a * a
               ELSE 2 * n * a * a * a
        den == IF t # 0 THEN b * b * t * Spread(y)
               ELSE 100 * b * b * Spread(y)
        signal == IF Spread(y) = 0 THEN 0 ELSE RoundHalfEven(10000 * num, den)
    IN  IF up THEN signal ELSE -signal

\* the clamp on one side only
ClampImprovementAbove(x) == Min2(1000, x)

\* max(-100, min(100, .)) in tenths
ClampImprovement(x) == Max2(-1000, Min2(1000, x))

\* improvement_score in tenths: raw_score * age_mult * 500, rounded, clamped
ImprovementScore(table, qualifying, age) ==
    LET stats == ScoredStats(table, qualifying)
        weighted_sum == SumOver(stats,
            [s \in stats |-> table[s].w * StatSignal(StatValues(qualifying, s), table[s].up)])
        weight_total == SumOver(stats, [s \in stats |-> table[s].w])
    IN  ClampImprovement(
            RoundHalfEven(weighted_sum * _get_age_multiplier(age), 20 * weight_total))

\* one player of _calculate_improvement: Missing when the player is skipped
_calculate_improvement(seasons, table, age, player_type) ==
    LET qualifying == QualifyingSeasons(seasons, player_type)
    IN  IF age = Missing THEN Missing
        ELSE IF Len(qualifying) < MIN_SEASONS THEN Missing
        ELSE IF ScoredStats(table, qualifying) = {} THEN Missing
        ELSE [k |-> "num", v |-> ImprovementScore(table, qualifying, age.v),
              seasons_used |-> Len(qualifying)]

StickyStats(player_type) ==
    IF player_type = "batter" THEN BATTER_STICKY_STATS ELSE PITCHER_STICKY_STATS

SkillsStats(player_type) ==
    IF player_type = "batter" THEN HITTER_SKILLS_STATS ELSE PITCHER_SKILLS_STATS

\* the seasons of the model: playing time on either side of the threshold,
\* strikeout rate 18, 22 or 26 percent, walk rate 8, 10 or 12 percent
PlayingTimes(player_type) == IF player_type = "batter" THEN {150, 250} ELSE {30, 60}
SeasonLines(player_type) ==
    [pt : PlayingTimes(player_type), k_pct : {18, 22, 26}, bb_pct : {8, 10, 12}]

\* a season older than the three most recent: one that qualifies and one that
\* does not
OlderSeasonLines(player_type) ==
    {s \in SeasonLines(player_type) : s.k_pct = 26 /\ s.bb_pct = 8}

SeasonCounts == {1, 2, 3, 4}

SeasonHistories(player_type) ==
    UNION {[1..n -> SeasonLines(player_type)] : n \in SeasonCounts \ {4}}
    \cup {<<o>> \o h : o \in OlderSeasonLines(player_type),
                       h \in [1..3 -> SeasonLines(player_type)]}

SkillsAges == {Missing, Num(25), Num(35)}

SkillsInit ==
    \E t \in PlayerTypes, age \in SkillsAges :
        \E seasons \in SeasonHistories(t) :
            skills = [pc |-> "start", player_type |-> t, age |-> age,
                      seasons |-> seasons, out |-> Missing]
    /\ value = Idle /\ auction = Idle /\ traj = Idle /\ pred = Idle /\ batch = Idle /\ save = Idle /\ surplus = Idle /\ dynpool = Idle /\ mproj = Idle /\ yoy = Idle /\ training = Idle /\ monitor = Idle

\* calculate_batter_consistency / calculate_pitcher_consistency, one player
calculate_consistency ==
    /\ skills.pc = "start"
    /\ skills' = [skills EXCEPT
                    !.pc = "consistency",
                    !.out = _calculate_consistency(skills.seasons,
                                StickyStats(skills.player_type), skills.player_type)]
    /\ UNCHANGED <<value, auction, traj, pred, batch, save, surplus, dynpool, mproj, yoy, training, monitor>>

\* calculate_batter_improvement / calculate_pitcher_improvement, one player
calculate_improvement ==
    /\ skills.pc = "start"
    /\ skills' = [skills EXCEPT
                    !.pc = "improvement",
                    !.out = _calculate_improvement(skills.seasons,
                                SkillsStats(skills.player_type), skills.age,
                                skills.player_type)]
    /\ UNCHANGED <<value, auction, traj, pred, batch, save, surplus, dynpool, mproj, yoy, training, monitor>>

SpecSkills ==
    /\ SkillsInit
    /\ [][calculate_consistency \/ calculate_improvement]_vars

\* C14: an emitted consistency_score lies in [0, 100] and an emitted
\* improvement_score in [-100, 100] (tenths).
C14_ScoresInRange ==
    /\ (skills.pc = "consistency" /\ skills.out # Missing) =>
           skills.out.v \in 0..1000
    /\ (skills.pc = "improvement" /\ skills.out # Missing) =>
           skills.out.v \in -1000..1000

\* the 25-year-old batter whose strikeouts rise 18, 22, 26 percent and whose
\* walks fall 12, 10, 8 percent has been scored: the raw -114.5 is cut to -100.0
C14_Witness ==
    /\ skills.pc = "improvement" /\ skills.out # Missing
    /\ skills.player_type = "batter" /\ skills.age = Num(25)
    /\ StatValues(QualifyingSeasons(skills.seasons, "batter"), "k_pct")
           = <<18, 22, 26>>
    /\ StatValues(QualifyingSeasons(skills.seasons, "batter"), "bb_pct")
           = <<12, 10, 8>>
    /\ skills.out.v = -1000

\* the seasons of a history with PA >= 200 (batters) or IP >= 40 (pitchers)
SeasonsMeetingThreshold ==
    {i \in DOMAIN skills.seasons :
        skills.seasons[i].pt >= (IF skills.player_type = "batter" THEN 200 ELSE 40)}

SkillsScored == skills.pc \in {"consistency", "improvement"}

\* C15: a player with fewer than 2 seasons at the playing-time threshold is in
\* neither output, whatever other seasons the player has.
C15_OneQualifyingSeasonNoScore ==
    (SkillsScored /\ Cardinality(SeasonsMeetingThreshold) < 2) =>
        skills.out = Missing

\* a player of three seasons, one of them qualifying, has been left out of the
\* improvement output although the age is known
C15_Witness ==
    /\ skills.pc = "improvement"
    /\ skills.age # Missing
    /\ Len(skills.seasons) = 3
    /\ Cardinality(SeasonsMeetingThreshold) = 1
    /\ skills.out = Missing

\* the tracked statistics of the player and their values over the qualifying
\* seasons, oldest first
TrackedStats == DOMAIN SkillsStats(skills.player_type) \cap SeasonColumns

TrackedValues(stat) ==
    StatValues(QualifyingSeasons(skills.seasons, skills.player_type), stat)

\* every step of y goes up (dir = 1), down (dir = -1) or nowhere (dir = 0)
EveryStep(y, dir) ==
    \A i \in 1..(Len(y) - 1) :
        CASE dir = 1 -> y[i + 1] > y[i]
          [] dir = -1 -> y[i + 1] < y[i]
          [] OTHER -> y[i + 1] = y[i]

ImprovementDirection(stat) ==
    IF SkillsStats(skills.player_type)[stat].up THEN 1 ELSE -1

ImprovementEmitted == skills.pc = "improvement" /\ skills.out # Missing

\* C16: every tracked statistic strictly improving season over season gives a
\* score >= 0 (above 30 for the 25-year-old batter of strikeouts 26, 22, 18
\* and walks 8, 10, 12 percent); every one strictly worsening gives <= 0;
\* every one constant gives 0.
C16_SignFollowsTrend ==
    ImprovementEmitted =>
        /\ (\A s \in TrackedStats :
               EveryStep(TrackedValues(s), ImprovementDirection(s)))
              => skills.out.v >= 0
        /\ (\A s \in TrackedStats :
               EveryStep(TrackedValues(s), -ImprovementDirection(s)))
              => skills.out.v <= 0
        /\ (\A s \in TrackedStats : EveryStep(TrackedValues(s), 0))
              => skills.out.v = 0
        /\ (/\ skills.player_type = "batter" /\ skills.age = Num(25)
            /\ TrackedValues("k_pct") = <<26, 22, 18>>
            /\ TrackedValues("bb_pct") = <<8, 10, 12>>)
              => skills.out.v > 300

\* the 25-year-old batter of strikeouts 26, 22, 18 and walks 8, 10, 12 percent
\* has been scored above 30, and so has the pitcher whose strikeouts rise and
\* walks fall
C16_Witness ==
    /\ ImprovementEmitted
    /\ skills.age = Num(25)
    /\ \/ /\ skills.player_type = "batter"
          /\ TrackedValues("k_pct") = <<26, 22, 18>>
          /\ TrackedValues("bb_pct") = <<8, 10, 12>>
       \/ /\ skills.player_type = "pitcher"
          /\ TrackedValues("k_pct") = <<18, 22, 26>>
          /\ TrackedValues("bb_pct") = <<12, 10, 8>>
    /\ skills.out.v > 300

\* the qualifying seasons with the values of every statistic in reverse
\* chronological order
ReversedSeasons ==
    LET q == QualifyingSeasons(skills.seasons, skills.player_type)
    IN  [i \in 1..Len(q) |-> q[Len(q) + 1 - i]]

\* C17: the same player with every statistic's values in reverse order gets
\* exactly the negated improvement_score.
C17_ReversalNegates ==
    ImprovementEmitted =>
        _calculate_improvement(ReversedSeasons, SkillsStats(skills.player_type),
                               skills.age, skills.player_type).v
            = -skills.out.v

\* a history that is not monotone has been scored strictly between 0 and 100:
\* its reversal scores the negative
C17_Witness ==
    /\ ImprovementEmitted
    /\ skills.out.v > 0 /\ skills.out.v < 1000
    /\ ~EveryStep(TrackedValues("k_pct"), 1)
    /\ ~EveryStep(TrackedValues("k_pct"), -1)
    /\ Len(TrackedValues("k_pct")) = 3
    /\ ReversedSeasons # QualifyingSeasons(skills.seasons, skills.player_type)

---------------------------------------------------------------------------
(* Dynasty value over a player pool: calculate_dynasty_value *)

DynastyPoolSize == 2

\* keeper_cost_inflation, dollars per year
KEEPER_COST_INFLATION == 5

\* auction_value of the rows in dollars; -2 is a value calculate_sgp_values
\* produces when the budget does not cover the roster reserve
DynastyValues == {-2, 0, 5, 40}

\* the player's entry in player_ages (Missing: no entry)
DynastyAges == {Missing, Num(25), Num(33)}

\* the player's entry in years_of_control (Missing: estimated from the age)
ControlYears == {Missing, Num(2)}

DynastyRows == [auction_value : DynastyValues, age : DynastyAges, yoc : ControlYears]

\* the expected_cost column: absent, or 15 dollars on every row
DynastyCosts == {Missing, Num(15)}

\* player_ages.get(pid, 30)
DynastyAge(row) == IF IsNum(row.age) THEN row.age.v ELSE DEFAULT_DYNASTY_AGE

\* the estimate grows with the age
YearsOfControlGrowing(row) ==
    IF IsNum(row.yoc) THEN row.yoc.v ELSE Max2(0, DynastyAge(row) - 20)

\* (years_of_control or {}).get(pid, max(0, 38 - age))
YearsOfControl(row) ==
    IF IsNum(row.yoc) THEN row.yoc.v ELSE Max2(0, 38 - DynastyAge(row))

\* age_factor in hundredths
AgeFactor(future_age) ==
    IF future_age <= 27 THEN 100 + (27 - future_age)
    ELSE IF future_age <= 32 THEN 100 - 2 * (future_age - 27)
    ELSE Max2(30, 100 - 2 * 5 - 4 * (future_age - 32))

\* Totals over many years do not fit a machine integer: a total is a sequence
\* of digits in base BigBase, least significant first, without leading zeros
BigBase == 10000

RECURSIVE BigMulCarry(_, _, _)
BigMulCarry(a, k, carry) ==
    IF a = <<>>
    THEN IF carry = 0 THEN <<>>
         ELSE <<carry % BigBase>> \o BigMulCarry(<<>>, k, carry \div BigBase)
    ELSE LET t == Head(a) * k + carry
         IN  <<t % BigBase>> \o BigMulCarry(Tail(a), k, t \div BigBase)

\* a * k for a small natural k
BigMul(a, k) == IF k = 0 THEN <<>> ELSE BigMulCarry(a, k, 0)

RECURSIVE BigAddCarry(_, _, _)
BigAddCarry(a, b, carry) ==
    IF a = <<>> /\ b = <<>>
    THEN IF carry = 0 THEN <<>> ELSE <<carry>>
    ELSE LET x == IF a = <<>> THEN 0 ELSE Head(a)
             y == IF b = <<>> THEN 0 ELSE Head(b)
             t == x + y + carry
         IN  <<t % BigBase>>
                \o BigAddCarry(IF a = <<>> THEN a ELSE Tail(a),
                               IF b = <<>> THEN b ELSE Tail(b), t \div BigBase)

BigAdd(a, b) == BigAddCarry(a, b, 0)

BigLess(a, b) ==
    IF Len(a) # Len(b) THEN Len(a) < Len(b)
    ELSE LET diff == {i \in 1..Len(a) : a[i] # b[i]}
         IN  /\ diff # {}
             /\ LET top == CHOOSE i \in diff : \A j \in diff : j <= i
                IN  a[top] < b[top]

\* a * b^e
RECURSIVE BigTimesPow(_, _, _)
BigTimesPow(a, b, e) == IF e = 0 THEN a ELSE BigTimesPow(BigMul(a, b), b, e - 1)

RECURSIVE BigSum(_, _)
BigSum(S, f) ==
    IF S = {} THEN <<>>
    ELSE LET x == CHOOSE x \in S : TRUE
         IN  BigAdd(f[x], BigSum(S \ {x}, f))

\* the largest q in lo..hi with q * den <= num
RECURSIVE BigQuotient(_, _, _, _)
BigQuotient(lo, hi, num, den) ==
    IF lo = hi THEN lo
    ELSE LET mid == (lo + hi + 1) \div 2
         IN  IF BigLess(num, BigMul(den, mid))
             THEN BigQuotient(lo, mid - 1, num, den)
             ELSE BigQuotient(mid, hi, num, den)

\* round(raw / max_val * 100, 1) in tenths, ties to even, for raw <= max_val
BigRoundShare(raw, max_val) ==
    LET num == BigMul(raw, 1000)
        q == BigQuotient(0, 1000, num, max_val)
        twice == BigMul(num, 2)
        half == BigMul(max_val, 2 * q + 1)
    IN  IF BigLess(twice, half) THEN q
        ELSE IF BigLess(half, twice) THEN q + 1
        ELSE q + (q % 2)

\* the longest horizon of the pool; totals are held in dollars times
\* 100 * 10^(horizon - 1)
Horizon(pool) ==
    LET ys == {YearsOfControl(pool[i]) : i \in DOMAIN pool}
    IN  Max2(1, CHOOSE y \in ys : \A z \in ys : z <= y)

\* max(0, discounted_value) of one year: annual_value * age_factor * 0.9^year
DiscountedValue(row, year, horizon) ==
    LET projected == row.auction_value * AgeFactor(DynastyAge(row) + year)
    IN  IF projected <= 0 THEN <<>>
        ELSE BigTimesPow(BigTimesPow(<<projected>>, 9, year), 10, horizon - 1 - year)

\* total_future_value of one row
TotalFutureValue(row, horizon) ==
    LET years == 0..(YearsOfControl(row) - 1)
    IN  BigSum(years, [y \in years |-> DiscountedValue(row, y, horizon)])

\* keeper_cost < projected_year_value in the given year
KeeperIsCheaper(row, cost, year) ==
    100 * (cost + KEEPER_COST_INFLATION * year)
        < row.auction_value * AgeFactor(DynastyAge(row) + year)

\* the loop over range(yoc), from `year` on
RECURSIVE KeepCutLoop(_, _, _, _)
KeepCutLoop(row, cost, year, keep_cut) ==
    IF year >= YearsOfControl(row) THEN keep_cut
    ELSE KeepCutLoop(row, cost, year + 1,
                     IF KeeperIsCheaper(row, cost, year) /\ keep_cut = year
                     THEN year + 1 ELSE keep_cut)

KeepCutHorizon(row, cost) == KeepCutLoop(row, cost, 0, 0)

\* normalising by the pool's sum
PoolTotal(raw) == BigSum(DOMAIN raw, raw)

\* df["dynasty_raw"].max()
PoolMax(raw) ==
    CHOOSE x \in {raw[i] : i \in DOMAIN raw} : \A j \in DOMAIN raw : ~BigLess(x, raw[j])

\* dynasty_value of every row, in tenths
NormalizedDynasty(raw) ==
    LET max_val == PoolMax(raw)
    IN  [i \in DOMAIN raw |->
            IF max_val # <<>> THEN BigRoundShare(raw[i], max_val) ELSE 0]

\* row.get("expected_cost", 1)
CurrentCost(expected_cost) == IF IsNum(expected_cost) THEN expected_cost.v ELSE 1

DynastyInit ==
    \E pool \in [1..DynastyPoolSize -> DynastyRows], cost \in DynastyCosts :
        dynpool = [pc |-> "start", player_values |-> pool, expected_cost |-> cost,
                   out |-> None]
    /\ value = Idle /\ auction = Idle /\ traj = Idle /\ pred = Idle /\ batch = Idle /\ save = Idle /\ skills = Idle /\ surplus = Idle /\ mproj = Idle /\ yoy = Idle /\ training = Idle /\ monitor = Idle

\* calculate_dynasty_value on the whole pool
calculate_pool_dynasty_value ==
    /\ dynpool.pc = "start"
    /\ LET pool == dynpool.player_values
           cost == CurrentCost(dynpool.expected_cost)
       IN  \E raw \in {[i \in DOMAIN pool |-> TotalFutureValue(pool[i], Horizon(pool))]} :
             dynpool' =
               [dynpool EXCEPT
                  !.pc = "done",
                  !.out = [keep_cut_horizon |->
                               [i \in DOMAIN pool |-> KeepCutHorizon(pool[i], cost)],
                           dynasty_value |-> NormalizedDynasty(raw)]]
    /\ UNCHANGED <<value, auction, traj, pred, batch, save, skills, surplus, mproj, yoy, training, monitor>>

SpecDynasty ==
    /\ DynastyInit
    /\ [][calculate_pool_dynasty_value]_vars

DynastyDone == dynpool.pc = "done"

\* the raw totals of the rows of the pool
DynastyRaws ==
    [i \in DOMAIN dynpool.player_values |->
        TotalFutureValue(dynpool.player_values[i], Horizon(dynpool.player_values))]

\* row i holds the largest of the raw totals
HoldsLargest(raw, i) == \A j \in DOMAIN raw : ~BigLess(raw[i], raw[j])

\* C20: every dynasty_value is in [0, 100] (tenths); when the pool's largest
\* raw total is positive its holder gets exactly 100, and when it is 0 every
\* player gets 0.
C20_DynastyValueNormalized ==
    DynastyDone =>
        \A raw \in {DynastyRaws} :
            \A i \in DOMAIN raw :
                /\ dynpool.out.dynasty_value[i] \in 0..1000
                /\ (HoldsLargest(raw, i) /\ raw[i] # <<>>)
                      => dynpool.out.dynasty_value[i] = 1000
                /\ (\A j \in DOMAIN raw : raw[j] = <<>>)
                      => dynpool.out.dynasty_value[i] = 0

\* a pool of two players with different positive totals: the larger is 100,
\* the smaller strictly between 0 and 100
C20_Witness ==
    /\ DynastyDone
    /\ BigLess(DynastyRaws[2], DynastyRaws[1]) /\ DynastyRaws[2] # <<>>
    /\ dynpool.out.dynasty_value[1] = 1000
    /\ dynpool.out.dynasty_value[2] \in 1..999

\* a pool whose totals are all 0 although players have years of control
AllZeroPool ==
    /\ DynastyDone
    /\ \A i \in DOMAIN dynpool.player_values : DynastyRaws[i] = <<>>
    /\ \E i \in DOMAIN dynpool.player_values :
          dynpool.player_values[i].auction_value < 0
             /\ YearsOfControl(dynpool.player_values[i]) > 0

\* two players of equal value and cost, ages 25 and 33, two years of control:
\* the younger has the higher dynasty_value
YoungerIsWorthMore ==
    /\ DynastyDone
    /\ dynpool.player_values[1] = [auction_value |-> 40, age |-> Num(25), yoc |-> Num(2)]
    /\ dynpool.player_values[2] = [auction_value |-> 40, age |-> Num(33), yoc |-> Num(2)]
    /\ dynpool.out.dynasty_value[1] > dynpool.out.dynasty_value[2]

\* test_dynasty_value_is_0_to_100 with the ages 25 and 33: 40 dollars over 13
\* years against 5 dollars over 5 years
LongHorizonPool ==
    /\ DynastyDone
    /\ dynpool.player_values[1] = [auction_value |-> 40, age |-> Num(25), yoc |-> Missing]
    /\ dynpool.player_values[2] = [auction_value |-> 5, age |-> Num(33), yoc |-> Missing]
    /\ dynpool.expected_cost = Missing

\* C21: of two players of the pool with the same auction_value (the
\* expected_cost is the pool's) and estimated years of control, the younger
\* has a dynasty_value and a keep_cut_horizon at least as high.
C21_YoungerAtLeastAsValuable ==
    DynastyDone =>
        \A i, j \in DOMAIN dynpool.player_values :
            LET a == dynpool.player_values[i]
                b == dynpool.player_values[j]
            IN  (/\ a.auction_value = b.auction_value
                 /\ a.yoc = Missing /\ b.yoc = Missing
                 /\ IsNum(a.age) /\ IsNum(b.age) /\ a.age.v < b.age.v)
                => /\ dynpool.out.dynasty_value[i] >= dynpool.out.dynasty_value[j]
                   /\ dynpool.out.keep_cut_horizon[i] >= dynpool.out.keep_cut_horizon[j]

\* 40 dollars at cost 15, ages 25 and 33, years of control estimated: the
\* younger is worth strictly more and is kept strictly longer
C21_Witness ==
    /\ DynastyDone
    /\ dynpool.player_values[1] = [auction_value |-> 40, age |-> Num(25), yoc |-> Missing]
    /\ dynpool.player_values[2] = [auction_value |-> 40, age |-> Num(33), yoc |-> Missing]
    /\ dynpool.expected_cost = Num(15)
    /\ dynpool.out.dynasty_value[1] > dynpool.out.dynasty_value[2]
    /\ dynpool.out.keep_cut_horizon[1] > dynpool.out.keep_cut_horizon[2]

\* keeper_cost > projected_year_value in the given year
KeeperCostExceeds(row, cost, year) ==
    100 * (cost + KEEPER_COST_INFLATION * year)
        > row.auction_value * AgeFactor(DynastyAge(row) + year)

\* the smallest year of control in which `passes` holds, or the number of
\* years of control
FirstYear(row, passes(_)) ==
    LET years == {y \in 0..(YearsOfControl(row) - 1) : passes(y)}
    IN  IF years = {} THEN YearsOfControl(row)
        ELSE CHOOSE y \in years : \A z \in years : y <= z

\* C22: keep_cut_horizon is the smallest 0-based year within the years of
\* control in which the keeper cost is strictly greater than the projected
\* value of that year, or the number of years of control if there is none.
C22_KeepCutIsFirstYearCostExceeds ==
    DynastyDone =>
        \A i \in DOMAIN dynpool.player_values :
            dynpool.out.keep_cut_horizon[i] =
                LET row == dynpool.player_values[i]
                    exceeds(y) ==
                        KeeperCostExceeds(row, CurrentCost(dynpool.expected_cost), y)
                IN  FirstYear(row, exceeds)

\* keep_cut_horizon is the first year in which the keeper cost is not below
\* the projected value: a cost equal to the value ends the horizon
KeepCutIsFirstYearNotCheaper ==
    DynastyDone =>
        \A i \in DOMAIN dynpool.player_values :
            dynpool.out.keep_cut_horizon[i] =
                LET row == dynpool.player_values[i]
                    notCheaper(y) ==
                        ~KeeperIsCheaper(row, CurrentCost(dynpool.expected_cost), y)
                IN  FirstYear(row, notCheaper)

\* a 25-year-old worth 40 dollars without expected_cost: in year 7 the keeper
\* cost 1 + 5 * 7 equals the projected 40 * 0.90, and the horizon is 7
CostEqualsValueEndsHorizon ==
    /\ DynastyDone
    /\ dynpool.player_values[1] = [auction_value |-> 40, age |-> Num(25), yoc |-> Missing]
    /\ dynpool.expected_cost = Missing
    /\ ~KeeperIsCheaper(dynpool.player_values[1], 1, 7)
    /\ ~KeeperCostExceeds(dynpool.player_values[1], 1, 7)
    /\ dynpool.out.keep_cut_horizon[1] = 7

---------------------------------------------------------------------------
(* Marcel baseline: backend/ml/models/marcel_baseline.py *)

\* weights of the three most recent seasons, most recent first
YEAR_WEIGHTS == <<5, 4, 3>>

BATTER_REGRESSION_PA == 1200
PITCHER_REGRESSION_OUTS == 134

\* AGE_ADJUSTMENT = 0.006, in thousandths
AGE_ADJUSTMENT == 6

BATTER_RATE_STATS ==
    {"avg", "obp", "slg", "iso", "woba", "babip", "k_pct", "bb_pct",
     "barrel_pct", "hard_hit_pct"}
BATTER_COUNTING_STATS == {"hr", "rbi", "r", "sb"}
PITCHER_RATE_STATS ==
    {"era", "whip", "fip", "k_pct", "bb_pct", "k_bb_pct", "babip",
     "barrel_pct_against", "hard_hit_pct_against", "hr_fb_pct"}

\* league averages in units of 0.00001
LEAGUE_AVG_BATTING ==
    [avg |-> 24800, obp |-> 31500, slg |-> 39900, iso |-> 15100,
     woba |-> 31200, babip |-> 29600, k_pct |-> 22500, bb_pct |-> 8300,
     barrel_pct |-> 6800, hard_hit_pct |-> 37000]
LEAGUE_AVG_PITCHING ==
    [era |-> 415000, whip |-> 128000, fip |-> 410000, k_pct |-> 22500,
     bb_pct |-> 8300, k_bb_pct |-> 14200, babip |-> 29600,
     barrel_pct_against |-> 6800, hard_hit_pct_against |-> 37000,
     hr_fb_pct |-> 13200]

\* the pitcher stats whose age adjustment is inverted
InvertedPitcherStats ==
    {"era", "whip", "fip", "babip", "hr_fb_pct", "barrel_pct_against",
     "hard_hit_pct_against", "bb_pct"}

\* the stats a lower value of which is better: pitcher ERA, WHIP, FIP and
\* walk rate, batter strikeout rate
LowerIsBetter(ptype, stat) ==
    IF ptype = "pitcher" THEN stat \in {"era", "whip", "fip", "bb_pct"}
    ELSE stat = "k_pct"

MaxSeasons == 3

\* the rate stat column the season rows carry next to the playing time
MarcelStats(ptype) ==
    IF ptype = "pitcher" THEN {"era", "k_pct"} ELSE {"avg", "k_pct"}

\* values of the column, in units of 0.00001; None is a missing key or a
\* None value, NaN a missing value of a DataFrame row
SeasonValues(stat) ==
    {None, NaN} \cup
    (CASE stat = "avg" -> {Num(24809), Num(30000)}
       [] stat = "era" -> {Num(300000), Num(450000)}
       [] OTHER -> {Num(20000), Num(25000)})

\* pa of a batter season, ip of a pitcher season
SeasonPlayingTimes(ptype) == IF ptype = "pitcher" THEN {0, 180} ELSE {0, 600}

MarcelAges == {24, 26, 27, 33}

\* the counting column the rows carry (hr for batters, so for pitchers), the
\* same count in every season
CountedStat(ptype) == IF ptype = "pitcher" THEN "so" ELSE "hr"
SeasonCount(ptype) == IF ptype = "pitcher" THEN 150 ELSE 20

\* seasons[:3]
Recent(seasons) == SubSeq(seasons, 1, Min2(3, Len(seasons)))

\* pa, or outs = ip * 3
WeightUnits(ptype, season) == IF ptype = "pitcher" THEN 3 * season.pt ELSE season.pt

\* the seasons that enter the weighted sum: val is not None and pa > 0
Weighted(ptype, seasons) ==
    {i \in DOMAIN Recent(seasons) :
        seasons[i].val # None /\ WeightUnits(ptype, seasons[i]) > 0}

SeasonWeight(ptype, seasons, i) == YEAR_WEIGHTS[i] * WeightUnits(ptype, seasons[i])

\* sum(pa) or sum(outs) over seasons[:3]
TotalUnits(ptype, seasons) ==
    SumOver(DOMAIN Recent(seasons),
            [i \in DOMAIN Recent(seasons) |-> WeightUnits(ptype, seasons[i])])

RegressionConstant(ptype) ==
    IF ptype = "pitcher" THEN PITCHER_REGRESSION_OUTS ELSE BATTER_REGRESSION_PA

MarcelPeakAge(ptype) ==
    IF ptype = "pitcher" THEN PITCHER_PEAK_AGE ELSE BATTER_PEAK_AGE

LeagueAverage(ptype, stat) ==
    IF ptype = "pitcher" THEN LEAGUE_AVG_PITCHING[stat] ELSE LEAGUE_AVG_BATTING[stat]

\* age_adj in thousandths
AgeAdj(ptype, stat, age) ==
    IF ptype = "pitcher" /\ stat \in InvertedPitcherStats
    THEN 1000 + AGE_ADJUSTMENT * (age - MarcelPeakAge(ptype))
    ELSE 1000 - AGE_ADJUSTMENT * (age - MarcelPeakAge(ptype))

\* a natural number as a total
BigFrom(n) == BigMulCarry(<<>>, 0, n)

\* num / den rounded to the nearest integer in 0..hi, ties to even
BigRound(num, den, hi) ==
    LET q == BigQuotient(0, hi, num, den)
        twice == BigMul(num, 2)
        half == BigMul(den, 2 * q + 1)
    IN  IF BigLess(twice, half) THEN q
        ELSE IF BigLess(half, twice) THEN q + 1
        ELSE q + (q % 2)

\* the largest rate the model holds, in units of 0.0001
MaxRate == 100000

\* weighted_sum and weight_total of the numeric seasons
MarcelWeightedSum(ptype, seasons) ==
    LET used == Weighted(ptype, seasons)
    IN  BigSum(used, [i \in used |->
            BigMul(BigFrom(seasons[i].val.v), SeasonWeight(ptype, seasons, i))])

MarcelWeightTotal(ptype, seasons) ==
    LET used == Weighted(ptype, seasons)
    IN  SumOver(used, [i \in used |-> SeasonWeight(ptype, seasons, i)])

\* the league average enters with twice its weight
RegressedNumeratorOvershoot(ptype, stat, seasons) ==
    BigAdd(BigMul(MarcelWeightedSum(ptype, seasons), TotalUnits(ptype, seasons)),
           BigMul(BigMul(BigFrom(LeagueAverage(ptype, stat)),
                         2 * RegressionConstant(ptype)),
                  MarcelWeightTotal(ptype, seasons)))

\* regressed = reliability * weighted_avg + (1 - reliability) * league_avg,
\* times weight_total * (total + regression constant)
RegressedNumerator(ptype, stat, seasons) ==
    BigAdd(BigMul(MarcelWeightedSum(ptype, seasons), TotalUnits(ptype, seasons)),
           BigMul(BigMul(BigFrom(LeagueAverage(ptype, stat)),
                         RegressionConstant(ptype)),
                  MarcelWeightTotal(ptype, seasons)))

RegressedDenominator(ptype, seasons) ==
    BigMul(BigFrom(MarcelWeightTotal(ptype, seasons)),
           TotalUnits(ptype, seasons) + RegressionConstant(ptype))

\* projections[stat] = round(regressed * age_adj, 4), in units of 0.0001:
\* Missing when weight_total is 0, NaN when a weighted season holds NaN
ProjectedRate(ptype, stat, seasons, age) ==
    LET used == Weighted(ptype, seasons)
    IN  IF used = {} THEN Missing
        ELSE IF \E i \in used : seasons[i].val = NaN THEN NaN
        ELSE Num(BigRound(BigMul(RegressedNumerator(ptype, stat, seasons),
                                 AgeAdj(ptype, stat, age)),
                          BigMul(BigMul(RegressedDenominator(ptype, seasons), 1000), 10),
                          MaxRate))

\* sum of the playing time of seasons[:3] weighted by year, and the weights
WeightedPlayingTime(seasons) ==
    SumOver(DOMAIN Recent(seasons),
            [i \in DOMAIN Recent(seasons) |-> seasons[i].pt * YEAR_WEIGHTS[i]])

YearWeightTotal(seasons) ==
    SumOver(DOMAIN Recent(seasons), [i \in DOMAIN Recent(seasons) |-> YEAR_WEIGHTS[i]])

\* max(0.5, 1.0 - 0.02 * years_from_peak) past the peak, in hundredths
PlayingTimeDecline(ptype, age) ==
    IF age - MarcelPeakAge(ptype) > 0
    THEN Max2(50, 100 - 2 * (age - MarcelPeakAge(ptype))) ELSE 100

\* _project_playing_time_batter: round(base_pa), in PA;
\* _project_playing_time_pitcher: round(base_ip, 1), in tenths of an inning
_project_playing_time(ptype, seasons, age) ==
    IF seasons = <<>> THEN 0
    ELSE RoundHalfEven(
            WeightedPlayingTime(seasons) * PlayingTimeDecline(ptype, age)
                * (IF ptype = "pitcher" THEN 10 ELSE 1),
            YearWeightTotal(seasons) * 100)

\* _counting_to_rate of a column as [num, den]: the count over the
\* denominator column, Missing when no season has a positive denominator
_counting_to_rate(ptype, seasons, counting_stat) ==
    LET used == {i \in DOMAIN Recent(seasons) : seasons[i].pt > 0}
        count == IF counting_stat = CountedStat(ptype) THEN SeasonCount(ptype) ELSE 0
    IN  IF used = {} THEN Missing
        ELSE [k |-> "num",
              num |-> SumOver(used, [i \in used |-> count * YEAR_WEIGHTS[i]]),
              den |-> SumOver(used, [i \in used |-> seasons[i].pt * YEAR_WEIGHTS[i]])]

\* the counting stats projected from the columns the rows carry; the rows
\* have no g column, so no saves are projected
ProjectedCounts(ptype, seasons, projected_pt) ==
    LET stats == IF ptype = "pitcher" THEN {"so", "w"} ELSE BATTER_COUNTING_STATS
        rate(s) == _counting_to_rate(ptype, seasons, s)
        kept == {s \in stats :
                    /\ rate(s) # Missing
                    /\ ptype = "batter" => projected_pt > 0}
    IN  [s \in kept |->
            Num(RoundHalfEven(rate(s).num * projected_pt,
                              rate(s).den * (IF ptype = "pitcher" THEN 10 ELSE 1)))]

\* the union of two dicts with disjoint keys
DictUnion(f, g) ==
    [k \in DOMAIN f \cup DOMAIN g |-> IF k \in DOMAIN f THEN f[k] ELSE g[k]]

\* project_batter / project_pitcher: the projection dict
Project(ptype, stat, seasons, age) ==
    IF seasons = <<>> THEN <<>>
    ELSE LET rate == ProjectedRate(ptype, stat, seasons, age)
             projected_pt == _project_playing_time(ptype, seasons, age)
             rates == IF rate = Missing THEN <<>> ELSE [s \in {stat} |-> rate]
             pt == [s \in {IF ptype = "pitcher" THEN "ip" ELSE "pa"} |->
                        Num(projected_pt)]
         IN  DictUnion(DictUnion(rates, pt),
                       ProjectedCounts(ptype, seasons, projected_pt))

SeasonLists(ptype, stat) ==
    UNION {[1..n -> [pt : SeasonPlayingTimes(ptype), val : SeasonValues(stat)]] :
              n \in 0..MaxSeasons}

MarcelInit ==
    \E ptype \in {"batter", "pitcher"}, age \in MarcelAges :
      \E stat \in MarcelStats(ptype) :
        \E seasons \in SeasonLists(ptype, stat) :
          mproj = [pc |-> "start", ptype |-> ptype, stat |-> stat,
                    seasons |-> seasons, age |-> age, out |-> None]
    /\ value = Idle /\ auction = Idle /\ traj = Idle /\ pred = Idle /\ batch = Idle /\ save = Idle /\ skills = Idle /\ surplus = Idle /\ dynpool = Idle /\ yoy = Idle /\ training = Idle /\ monitor = Idle

\* project_all_batters / project_all_pitchers for one player with a known
\* age: the projection is appended when the dict is not empty
project_player ==
    /\ mproj.pc = "start"
    /\ \E proj \in {Project(mproj.ptype, mproj.stat, mproj.seasons, mproj.age)} :
         mproj' = [mproj EXCEPT !.pc = "done",
                                  !.out = [proj |-> proj, emitted |-> proj # <<>>]]
    /\ UNCHANGED <<value, auction, traj, pred, batch, save, skills, surplus, dynpool, yoy, training, monitor>>

SpecMarcel ==
    /\ MarcelInit
    /\ [][project_player]_vars

MarcelDone == mproj.pc = "done"

\* the key of the projected playing time
PlayingTimeKey == IF mproj.ptype = "pitcher" THEN "ip" ELSE "pa"

\* C23: a player without a season of positive playing time (an empty season
\* list included) gets an empty projection and is omitted from the output of
\* project_all_batters / project_all_pitchers.
C23_NoPlayingTimeNoProjection ==
    (MarcelDone /\ \A i \in DOMAIN mproj.seasons : mproj.seasons[i].pt <= 0) =>
        /\ mproj.out.proj = <<>>
        /\ ~mproj.out.emitted

\* an empty season list gives an empty projection, which is omitted
EmptySeasonsNoProjection ==
    (MarcelDone /\ mproj.seasons = <<>>) =>
        mproj.out.proj = <<>> /\ ~mproj.out.emitted

\* a batter whose only season has 0 PA is emitted as {"pa": 0}
ZeroPlayingTimeEmitted ==
    /\ MarcelDone /\ mproj.ptype = "batter"
    /\ Len(mproj.seasons) = 1 /\ mproj.seasons[1].pt = 0
    /\ mproj.out.emitted
    /\ DOMAIN mproj.out.proj = {"pa"} /\ mproj.out.proj["pa"] = Num(0)

\* the projected rate stat of the player, Missing when the key is absent
ProjectedStat ==
    IF mproj.stat \in DOMAIN mproj.out.proj THEN mproj.out.proj[mproj.stat] ELSE Missing

\* C26: with the same seasons a higher age never improves the projected rate
\* stat: at every later age a higher-is-better stat is not higher and a
\* lower-is-better stat (pitcher ERA, WHIP, FIP, walk rate; batter strikeout
\* rate) is not lower.
C26_AgingNeverImproves ==
    (MarcelDone /\ IsNum(ProjectedStat)) =>
        \A a2 \in MarcelAges :
            a2 > mproj.age =>
                LET later == ProjectedRate(mproj.ptype, mproj.stat, mproj.seasons, a2)
                IN  IF LowerIsBetter(mproj.ptype, mproj.stat)
                    THEN later.v >= ProjectedStat.v
                    ELSE later.v <= ProjectedStat.v

\* the same for the pitcher stats and the batter stats other than k_pct
AgingNeverImprovesButBatterStrikeouts ==
    (MarcelDone /\ IsNum(ProjectedStat)
      /\ ~(mproj.ptype = "batter" /\ mproj.stat = "k_pct")) =>
        \A a2 \in MarcelAges :
            a2 > mproj.age =>
                LET later == ProjectedRate(mproj.ptype, mproj.stat, mproj.seasons, a2)
                IN  IF LowerIsBetter(mproj.ptype, mproj.stat)
                    THEN later.v >= ProjectedStat.v
                    ELSE later.v <= ProjectedStat.v

\* a batter's projected strikeout rate falls with the age: one season of
\* 600 PA at 0.200 projects 0.2206 at 24 and 0.2089 at 33
BatterStrikeoutRateFallsWithAge ==
    /\ MarcelDone /\ mproj.ptype = "batter" /\ mproj.stat = "k_pct"
    /\ mproj.seasons = <<[pt |-> 600, val |-> Num(20000)]>>
    /\ mproj.age = 24
    /\ ProjectedStat = Num(2206)
    /\ ProjectedRate("batter", "k_pct", mproj.seasons, 33) = Num(2089)

\* x lies between a and b, whichever is larger
Between(x, a, b) == (a <= x /\ x <= b) \/ (b <= x /\ x <= a)

RoundedAverage ==
    BigRound(MarcelWeightedSum(mproj.ptype, mproj.seasons),
             BigFrom(10 * MarcelWeightTotal(mproj.ptype, mproj.seasons)), MaxRate)

PitcherSingleSeason ==
    /\ MarcelDone /\ mproj.ptype = "pitcher" /\ mproj.stat = "era" /\ mproj.age = 26
    /\ mproj.seasons = <<[pt |-> 180, val |-> Num(300000)]>>
    /\ ProjectedStat = Num(32286)
    /\ mproj.out.proj["ip"] = Num(1800) /\ mproj.out.proj["so"] = Num(150)

\* three seasons of 600 PA at 0.24809 project 0.2481 at 27, above the
\* weighted average 0.24809
RoundingLeavesTheInterval ==
    /\ MarcelDone /\ mproj.ptype = "batter" /\ mproj.stat = "avg" /\ mproj.age = 27
    /\ \A i \in DOMAIN mproj.seasons : mproj.seasons[i] = [pt |-> 600, val |-> Num(24809)]
    /\ Len(mproj.seasons) = 3
    /\ ProjectedStat = Num(2481)

\* a NaN value in a weighted season makes the projected stat NaN
NaNSeasonProjectsNaN ==
    /\ MarcelDone /\ mproj.age = MarcelPeakAge(mproj.ptype)
    /\ \E i \in DOMAIN mproj.seasons : IsNum(mproj.seasons[i].val) /\ mproj.seasons[i].pt > 0
    /\ ProjectedStat = NaN

---------------------------------------------------------------------------
(* Year-over-year delta: backend/data_pipeline/transformers/feature_engineering.py *)

\* the longest season history of a player
MaxHistory == 3

\* the values of the stat in a player's season rows, in thousandths; NaN is
\* a season without the value
YoyValues == {Num(100), Num(180), Num(220), NaN}

\* a player's rows after sort_values("season", ascending=False): most recent
\* first, at least one row per group
YoyHistories == UNION {[1..n -> YoyValues] : n \in 1..MaxHistory}

\* seasons[stat].dropna()
DropNa(column) == SelectSeq(column, IsNum)

\* _yoy_delta: has_column is `stat in seasons.columns`
_yoy_delta(column, has_column) ==
    LET vals == IF has_column THEN DropNa(column) ELSE <<>>
    IN  IF Len(vals) < 2 THEN None
        ELSE Num(vals[1].v - vals[2].v)

YoyInit ==
    \E column \in YoyHistories, has_column \in BOOLEAN :
        yoy = [pc |-> "start", column |-> column, has_column |-> has_column,
               out |-> None]
    /\ value = Idle /\ auction = Idle /\ traj = Idle /\ pred = Idle /\ batch = Idle /\ save = Idle /\ skills = Idle /\ surplus = Idle /\ dynpool = Idle /\ mproj = Idle /\ training = Idle /\ monitor = Idle

\* row[f"{stat}_yoy_delta"] = _yoy_delta(seasons, stat)
engineer_yoy_delta ==
    /\ yoy.pc = "start"
    /\ yoy' = [yoy EXCEPT !.pc = "done",
                          !.out = _yoy_delta(yoy.column, yoy.has_column)]
    /\ UNCHANGED <<value, auction, traj, pred, batch, save, skills, surplus, dynpool, mproj, training, monitor>>

SpecYoy ==
    /\ YoyInit
    /\ [][engineer_yoy_delta]_vars

YoyDone == yoy.pc = "done"

\* C28: the year-over-year delta is the stat's value in the most recent
\* season minus its value in the immediately preceding season, and is null
\* when the player has fewer than 2 seasons or either of those two seasons
\* lacks the value.
C28_DeltaOfTwoMostRecentSeasons ==
    YoyDone =>
        yoy.out =
            IF /\ yoy.has_column
               /\ Len(yoy.column) >= 2
               /\ IsNum(yoy.column[1])
               /\ IsNum(yoy.column[2])
            THEN Num(yoy.column[1].v - yoy.column[2].v)
            ELSE None

\* when the two most recent seasons both hold the value the delta is their
\* difference, and fewer than two seasons give null
DeltaWhenBothPresent ==
    YoyDone =>
        /\ (/\ yoy.has_column
            /\ Len(yoy.column) >= 2
            /\ IsNum(yoy.column[1])
            /\ IsNum(yoy.column[2])) =>
               yoy.out = Num(yoy.column[1].v - yoy.column[2].v)
        /\ (Len(yoy.column) < 2 \/ ~yoy.has_column) => yoy.out = None

\* the most recent season lacks the value: the delta is taken between the
\* two seasons before it
DeltaSkipsMissingSeason ==
    /\ YoyDone
    /\ yoy.has_column
    /\ yoy.column = <<NaN, Num(220), Num(180)>>
    /\ yoy.out = Num(40)

\* 0.18 after 0.22: delta -0.04
DeltaScenario ==
    /\ YoyDone
    /\ yoy.has_column
    /\ yoy.column = <<Num(180), Num(220)>>
    /\ yoy.out = Num(-40)

---------------------------------------------------------------------------
(* Training splits: backend/ml/models/sleeper_model.py, bust_model.py,      *)
(* regression_model.py                                                      *)

\* TimeSeriesSplit(n_splits=3)
N_SPLITS == 3

\* CalibratedClassifierCV(ensemble, cv=3, ...)
CALIBRATION_FOLDS == 3

\* `if len(y) < 20:` train_regression_model returns without fitting
MIN_REGRESSION_ROWS == 20

\* the largest number of labelled rows of a classifier
MaxRows == 8

\* the largest number of rows with a regression target
MaxTargets == 22

\* binary labels in row order, with at least cv = 3 rows of either class
\* (CalibratedClassifierCV refuses fewer)
LabelVectors ==
    UNION {{y \in [1..n -> {0, 1}] :
              \A c \in {0, 1} :
                  Cardinality({i \in 1..n : y[i] = c}) >= CALIBRATION_FOLDS} :
           n \in (2 * CALIBRATION_FOLDS)..MaxRows}

\* one split: the rows a model is fitted on and the rows it is then scored or
\* calibrated on (rows are numbered from 1 in the order of X)
SplitOf(kind, fitted, held) == [kind |-> kind, fitted |-> fitted, held |-> held]

\* TimeSeriesSplit(n_splits=3).split(X) on n rows: test_size = n // 4, the
\* i-th test block starts at n - (3 - i + 1) * test_size, the rows before it
\* are the training rows
TimeSeriesSplit(n) ==
    LET test_size == n \div (N_SPLITS + 1)
    IN  {LET test_start == n - (N_SPLITS - i + 1) * test_size
         IN  SplitOf("cv", 1..test_start,
                     (test_start + 1)..(test_start + test_size)) :
         i \in 1..N_SPLITS}

\* the classes are encoded in their order of appearance
ClassCode(y, i) == IF y[i] = y[1] THEN 0 ELSE 1

ClassCount(y, k) == Cardinality({i \in DOMAIN y : ClassCode(y, i) = k})

\* the rows of class k that fold f holds: every third position of the sorted
\* class codes, from position f (0-based)
Allocation(y, f, k) ==
    Cardinality({j \in 0..(Len(y) - 1) :
                    /\ j % CALIBRATION_FOLDS = f
                    /\ (IF j < ClassCount(y, 0) THEN 0 ELSE 1) = k})

\* the number of earlier rows of the same class
RankInClass(y, i) ==
    Cardinality({j \in 1..(i - 1) : ClassCode(y, j) = ClassCode(y, i)})

\* the rows of class k held by the folds up to f
HeldUpTo(y, f, k) ==
    SumOver(0..f, [g \in 0..f |-> Allocation(y, g, k)])

\* the fold whose held-out part has row i: the rows of a class fill fold 0,
\* then fold 1, then fold 2, in row order (no shuffle)
TestFold(y, i) ==
    CHOOSE f \in 0..(CALIBRATION_FOLDS - 1) :
        /\ RankInClass(y, i) < HeldUpTo(y, f, ClassCode(y, i))
        /\ f > 0 => RankInClass(y, i) >= HeldUpTo(y, f - 1, ClassCode(y, i))

\* CalibratedClassifierCV(cv=3).fit(X, y): an integer cv on a classifier is
\* StratifiedKFold(3); a clone of the ensemble is fitted on the other folds
\* and the calibrator on the held-out fold
CalibrationSplits(y) ==
    {SplitOf("calibration",
             {i \in DOMAIN y : TestFold(y, i) # f},
             {i \in DOMAIN y : TestFold(y, i) = f}) :
     f \in 0..(CALIBRATION_FOLDS - 1)}

\* the splits of a classifier training run
ClassifierSplits(y) == TimeSeriesSplit(Len(y)) \cup CalibrationSplits(y)

TrainingInit ==
    /\ \/ \E model \in {"sleeper", "bust"}, y \in LabelVectors :
              training = [pc |-> "start", model |-> model, y |-> y,
                          rows |-> Len(y), splits |-> {}]
       \/ \E rows \in 1..MaxTargets :
              training = [pc |-> "start", model |-> "regression", y |-> <<>>,
                          rows |-> rows, splits |-> {}]
    /\ value = Idle /\ auction = Idle /\ traj = Idle /\ pred = Idle /\ batch = Idle /\ save = Idle /\ skills = Idle /\ surplus = Idle /\ dynpool = Idle /\ mproj = Idle /\ yoy = Idle /\ monitor = Idle

train_sleeper_model ==
    /\ training.pc = "start"
    /\ training.model = "sleeper"
    /\ training' = [training EXCEPT !.pc = "done",
                                    !.splits = ClassifierSplits(training.y)]
    /\ UNCHANGED <<value, auction, traj, pred, batch, save, skills, surplus, dynpool, mproj, yoy, monitor>>

train_bust_model ==
    /\ training.pc = "start"
    /\ training.model = "bust"
    /\ training' = [training EXCEPT !.pc = "done",
                                    !.splits = ClassifierSplits(training.y)]
    /\ UNCHANGED <<value, auction, traj, pred, batch, save, skills, surplus, dynpool, mproj, yoy, monitor>>

train_regression_model ==
    /\ training.pc = "start"
    /\ training.model = "regression"
    /\ training' = [training EXCEPT
                      !.pc = "done",
                      !.splits = IF training.rows < MIN_REGRESSION_ROWS THEN {}
                                 ELSE TimeSeriesSplit(training.rows)]
    /\ UNCHANGED <<value, auction, traj, pred, batch, save, skills, surplus, dynpool, mproj, yoy, monitor>>

TrainingNext ==
    \/ train_sleeper_model
    \/ train_bust_model
    \/ train_regression_model

SpecTraining ==
    /\ TrainingInit
    /\ [][TrainingNext]_vars

TrainingDone == training.pc = "done"

\* every fitted row precedes every held-out row
ForwardChaining(split) ==
    \A f \in split.fitted, h \in split.held : f < h

\* C30: training is forward-chaining throughout: in every split of
\* train_sleeper_model, train_bust_model and train_regression_model in which
\* a model is fitted on some rows and scored or calibrated on others, every
\* fitted row precedes every held-out row.
C30_ForwardChainingThroughout ==
    TrainingDone => \A split \in training.splits : ForwardChaining(split)

\* the TimeSeriesSplit folds are forward-chaining, and train_regression_model
\* has no other split
ScoringSplitsForwardChaining ==
    TrainingDone =>
        /\ \A split \in training.splits :
               split.kind = "cv" => ForwardChaining(split)
        /\ training.model = "regression" =>
               \A split \in training.splits : split.kind = "cv"

\* six rows 0 1 0 1 0 1: the first calibration fold holds rows 1 and 2 and
\* its classifier is fitted on rows 3 to 6
CalibrationFitsOnLaterRows ==
    /\ TrainingDone
    /\ training.model = "sleeper"
    /\ training.y = <<0, 1, 0, 1, 0, 1>>
    /\ SplitOf("calibration", {3, 4, 5, 6}, {1, 2}) \in training.splits

\* twenty regression rows: fitted on rows 1..5, 1..10, 1..15 and scored on
\* the five rows that follow
RegressionSplitsScenario ==
    /\ TrainingDone
    /\ training.model = "regression"
    /\ training.rows = 20
    /\ training.splits =
           {SplitOf("cv", 1..5, 6..10), SplitOf("cv", 1..10, 11..15),
            SplitOf("cv", 1..15, 16..20)}

---------------------------------------------------------------------------
(* Report throttling: backend/llm/generators/cost_monitor.py *)

\* CostMonitor(max_per_hour, max_per_day, max_concurrent), scaled down
MaxPerHour == 2
MaxPerDay == 3
MaxConcurrent == 2

\* the width of the two windows, in seconds
HOUR_SECONDS == 3600
DAY_SECONDS == 86400

\* record_completion(estimated_tokens=2000)
DEFAULT_ESTIMATED_TOKENS == 2000

\* report generations that may be in flight at once
NumWorkers == 3

\* generations admitted in one behaviour
MaxGenerations == 3

\* time.time() runs from 0 to MaxTime and advances by one of TimeSteps
MaxTime == 90000
TimeSteps == {1800, 86400}

Workers == 1..NumWorkers

\* [t for t in timestamps if t > now - window]
Recent_(timestamps, now, window) ==
    SelectSeq(timestamps, LAMBDA t : t > now - window)

\* the timestamps can_generate leaves behind: nothing is cleaned when the
\* concurrent limit returns first
CleanedHourly ==
    IF monitor._active_requests >= MaxConcurrent THEN monitor._hourly_timestamps
    ELSE Recent_(monitor._hourly_timestamps, monitor.now, HOUR_SECONDS)

CleanedDaily ==
    IF monitor._active_requests >= MaxConcurrent THEN monitor._daily_timestamps
    ELSE Recent_(monitor._daily_timestamps, monitor.now, DAY_SECONDS)

\* the boolean can_generate returns
Allowed ==
    /\ monitor._active_requests < MaxConcurrent
    /\ Len(CleanedHourly) < MaxPerHour
    /\ Len(CleanedDaily) < MaxPerDay

\* a generation is between its can_generate and its completion or failure
InFlight(w) == monitor.gen[w] # "idle"

MonitorInit ==
    /\ monitor = [pc |-> "run", now |-> 0,
                  _hourly_timestamps |-> <<>>, _daily_timestamps |-> <<>>,
                  _active_requests |-> 0, _total_generated |-> 0,
                  _total_tokens_estimated |-> 0,
                  gen |-> [w \in Workers |-> "idle"],
                  admitted |-> 0, completions |-> <<>>, overlapped |-> FALSE]
    /\ value = Idle /\ auction = Idle /\ traj = Idle /\ pred = Idle /\ batch = Idle /\ save = Idle /\ skills = Idle /\ surplus = Idle /\ dynpool = Idle /\ mproj = Idle /\ yoy = Idle /\ training = Idle

\* a generation calls can_generate() and goes on only when it returned True
can_generate(w) ==
    /\ monitor.gen[w] = "idle"
    /\ monitor.admitted < MaxGenerations
    /\ monitor' =
         [monitor EXCEPT
            !._hourly_timestamps = CleanedHourly,
            !._daily_timestamps = CleanedDaily,
            !.gen[w] = IF Allowed THEN "allowed" ELSE "idle",
            !.admitted = IF Allowed THEN @ + 1 ELSE @,
            !.overlapped = @ \/ (Allowed /\ \E v \in Workers \ {w} : InFlight(v))]
    /\ UNCHANGED <<value, auction, traj, pred, batch, save, skills, surplus, dynpool, mproj, yoy, training>>

record_start(w) ==
    /\ monitor.gen[w] = "allowed"
    /\ monitor' = [monitor EXCEPT !._active_requests = @ + 1,
                                  !.gen[w] = "started"]
    /\ UNCHANGED <<value, auction, traj, pred, batch, save, skills, surplus, dynpool, mproj, yoy, training>>

record_completion(w) ==
    /\ monitor.gen[w] = "started"
    /\ monitor' =
         [monitor EXCEPT
            !._active_requests = Max2(0, @ - 1),
            !._hourly_timestamps = Append(@, monitor.now),
            !._daily_timestamps = Append(@, monitor.now),
            !._total_generated = @ + 1,
            !._total_tokens_estimated = @ + DEFAULT_ESTIMATED_TOKENS,
            !.completions = Append(@, monitor.now),
            !.gen[w] = "idle"]
    /\ UNCHANGED <<value, auction, traj, pred, batch, save, skills, surplus, dynpool, mproj, yoy, training>>

record_failure(w) ==
    /\ monitor.gen[w] = "started"
    /\ monitor' = [monitor EXCEPT !._active_requests = Max2(0, @ - 1),
                                  !.gen[w] = "idle"]
    /\ UNCHANGED <<value, auction, traj, pred, batch, save, skills, surplus, dynpool, mproj, yoy, training>>

\* time passes between two calls
Tick ==
    /\ monitor.pc = "run"
    /\ \E d \in TimeSteps :
         /\ monitor.now + d <= MaxTime
         /\ monitor' = [monitor EXCEPT !.now = @ + d]
    /\ UNCHANGED <<value, auction, traj, pred, batch, save, skills, surplus, dynpool, mproj, yoy, training>>

MonitorNext ==
    \/ \E w \in Workers : can_generate(w)
    \/ \E w \in Workers : record_start(w)
    \/ \E w \in Workers : record_completion(w)
    \/ \E w \in Workers : record_failure(w)
    \/ Tick

SpecMonitor ==
    /\ MonitorInit
    /\ [][MonitorNext]_vars

MonitorRuns == monitor.pc = "run"

\* the generations completed in the window that ends now
CompletedWithin(window) ==
    Len(Recent_(monitor.completions, monitor.now, window))

\* C25: when every generation calls can_generate(), goes on to record_start()
\* only on True and ends with record_completion() or record_failure(), the
\* completed generations of any trailing 3600 s never exceed max_per_hour and
\* those of any trailing 86400 s never exceed max_per_day, for any
\* interleaving of the generations.
C25_LimitsHoldForAnyInterleaving ==
    MonitorRuns =>
        /\ CompletedWithin(HOUR_SECONDS) <= MaxPerHour
        /\ CompletedWithin(DAY_SECONDS) <= MaxPerDay

\* generations that never overlap keep both limits
LimitsHoldWithoutOverlap ==
    (MonitorRuns /\ ~monitor.overlapped) =>
        /\ CompletedWithin(HOUR_SECONDS) <= MaxPerHour
        /\ CompletedWithin(DAY_SECONDS) <= MaxPerDay

\* three generations were admitted before any of them completed, and all
\* three completed within the same second
HourlyLimitExceeded ==
    /\ MonitorRuns
    /\ monitor.now = 0
    /\ monitor._total_generated = 3
    /\ Len(monitor._hourly_timestamps) = 3

\* the hourly limit blocks a fourth generation after two completions, and
\* admits it again an hour later
HourlyLimitBlocks ==
    /\ MonitorRuns
    /\ ~monitor.overlapped
    /\ monitor.completions = <<0, 0, 3600>>

====
